---------------------------- MODULE Spec2Model ----------------------------
(***************************************************************************)
(* Playback clock, cue dispatch and press matching of the attack timing    *)
(* trainer: SimonSimulator (key press matching, play / reset wiring),      *)
(* usePlayback (start / stop / reset / tick and the animation loop         *)
(* effect), Controls (play button and option inputs) and TimingInput       *)
(* (loading the event list).                                               *)
(*                                                                         *)
(* Time is kept on a grid of 1/UnitsPerSecond seconds; performance.now()   *)
(* is the variable clock, in the same unit.  Deltas are in milliseconds.   *)
(*                                                                         *)
(* React: a handler of a React event (button click, input change) is       *)
(* re-rendered synchronously when it returns, so the action of such a      *)
(* handler ends with the re-render.  State set from a requestAnimationFrame*)
(* callback (tick) or from the native keydown listener (handleKeyPress) is *)
(* rendered later, by the action Render; until then the key listener and   *)
(* the play button still hold the values of the last render, kept in the   *)
(* variable rendered.                                                      *)
(*                                                                         *)
(* Spec lets the user load patterns and edit options at any time.          *)
(* SpecFixedRun is the same program with the pattern and the options       *)
(* edited only while no run is playing.  SpecLive adds fair ticking,       *)
(* SpecParse follows the text typed into TimingInput, SpecPatterns the     *)
(* calls of patternLoader on the localStorage item.  SpecAdjust,           *)
(* SpecCalibrate and SpecEditor are the pattern editor's                   *)
(* TimingAdjustmentInterface, CalibrationInterface and PatternEditor, each *)
(* on its own record of component state.                                   *)
(***************************************************************************)
EXTENDS Integers, Sequences, FiniteSets, TLC

\* ---- bounds of the model ------------------------------------------------
\* performance.now() is followed up to MaxClock
MaxClock == 3
\* key presses recorded in one press log
MaxPresses == 2
\* pattern loads and option edits the user makes
MaxEdits == 2
\* lines of a timing text
MaxLines == 3

\* ---- representation ------------------------------------------------------
\* Event.time, now and clock count units of 1/UnitsPerSecond seconds.
UnitsPerSecond == 1
\* Press.eventId = null
Null == -1
\* parseInt / parseFloat result NaN
NaN == -999

\* the state initial value of options (toleranceMs in ms, preRollSeconds in units)
InitialOptions == [toleranceMs |-> 100, preRollSeconds |-> 1 * UnitsPerSecond]

\* values typed into the tolerance input, after parseInt
ToleranceInputs == {NaN, 0, 1000}
\* values typed into the pre-roll input, after parseFloat, in units
PreRollInputs == {NaN, 1 * UnitsPerSecond}

VARIABLES
    clock,       \* performance.now()
    events,      \* SimonSimulator state: Event[]
    presses,     \* SimonSimulator state: Press[]
    inputError,  \* SimonSimulator state: inputError !== null
    options,     \* SimonSimulator state: PlaybackOptions
    isPlaying,   \* usePlayback state.isPlaying
    now,         \* usePlayback state.now
    startTime,   \* startTimeRef.current
    played,      \* playedEventsRef.current
    rafPending,  \* an animation frame requested for tick and not yet run or cancelled
    rendered,    \* isPlaying, now and presses as of the last render
    edits,       \* number of pattern loads and option edits made so far
    cues,        \* history: how often the cue of each event id played since the last start()
    autoStopped, \* history: the run ended by auto-stop and start() was not called since
    ticked,      \* history: the run is playing and a tick of it has set now
    accepted,    \* history: Space keydowns handled with isPlaying true since the
                 \* press log was last emptied
    text,        \* TimingInput state timingText, as a list of lines
    storage,     \* localStorage item 'simon-patterns-custom'
    returned,    \* the value returned by the last call of a patternLoader function
    threw,       \* the last call of a patternLoader function threw
    lastCall,    \* history: the patternLoader function called last
    adjustment,  \* TimingAdjustmentInterface: props, state and the last onSave call
    calibration, \* CalibrationInterface: props, state and the attached key listener
    editor,      \* PatternEditor state
    startedFrom  \* history, followed in SpecFixedRun only: "Idle" (constructed or
                 \* reset) or "Stopped" (stop or auto-stop), the state the run is in
                 \* when not playing and was started from when playing

vars == <<clock, events, presses, inputError, options, isPlaying, now,
          startTime, played, rafPending, rendered, edits, cues, autoStopped,
          ticked, accepted, startedFrom, text, storage, returned, threw, lastCall,
          adjustment, calibration, editor>>

\* the components of the pattern editor
toolVars == <<adjustment, calibration, editor>>

\* the state outside SimonSimulator's run: the timing text, the pattern
\* library and the pattern editor
libVars == <<text, storage, returned, threw, lastCall, toolVars>>

Abs(x) == IF x < 0 THEN -x ELSE x

\* Math.max(...events.map(e => e.time)), for a non-empty list
MaxEventTime(evs) ==
    CHOOSE m \in {evs[i].time : i \in 1..Len(evs)} :
        \A i \in 1..Len(evs) : evs[i].time <= m

\* ---- TimingInput ---------------------------------------------------------
\* parseFile returns, for valid text, a non-empty ascending list of times >= 0.
\* the timing texts entered, as the times parseFile returns for them
TimeLists == {<<1>>, <<0, 1>>, <<0, 2>>}
\* the same with a text that gives one time twice
TiedTimeLists == TimeLists \cup {<<1, 1>>}

\* ---- utils/parseFile ------------------------------------------------------
\* A timing text is the list of its lines (text.split('\n')), a line the list
\* of its characters.  Times are whole numbers of units; the decimal point is
\* not among the characters.
Space == " "
DigitChars == {"0", "1", "2"}
DigitValue(c) == CASE c = "0" -> 0 [] c = "1" -> 1 [] c = "2" -> 2

\* the lines typed into the text area
TimingLines ==
    { <<>>, <<Space>>, <<"#">>, <<"#", "1">>, <<Space, "#", "x">>,
      <<"0">>, <<"1">>, <<"2">>, <<Space, "1", Space>>, <<"1", "0">>,
      <<"-", "1">>, <<"x">>, <<"1", "x">>, <<"2", Space, "1">> }

\* the timing texts typed: 1..MaxLines lines
Texts == UNION {[1..n -> TimingLines] : n \in 1..MaxLines}

\* useState(''): the empty string is one empty line
InitialText == << <<>> >>

\* String.prototype.trim
RECURSIVE TrimStart(_)
TrimStart(l) == IF l # <<>> /\ l[1] = Space THEN TrimStart(Tail(l)) ELSE l
RECURSIVE TrimEnd(_)
TrimEnd(l) ==
    IF l # <<>> /\ l[Len(l)] = Space THEN TrimEnd(SubSeq(l, 1, Len(l) - 1)) ELSE l
Trim(l) == TrimEnd(TrimStart(l))

\* value of the longest prefix of digits of l, read after the digits acc
RECURSIVE DigitsPrefix(_, _)
DigitsPrefix(l, acc) ==
    IF l # <<>> /\ l[1] \in DigitChars
    THEN DigitsPrefix(Tail(l), acc * 10 + DigitValue(l[1]))
    ELSE acc

\* parseFloat: leading white space and a sign are skipped, the longest prefix
\* that is a number is converted and the rest of the string is ignored; NaN
\* when no digit is found
ParseFloat(str) ==
    LET l == TrimStart(str)
        signed == l # <<>> /\ l[1] \in {"-", "+"}
        rest == IF signed THEN Tail(l) ELSE l
    IN  IF rest = <<>> \/ rest[1] \notin DigitChars
        THEN NaN
        ELSE IF signed /\ l[1] = "-" THEN 0 - DigitsPrefix(rest, 0)
             ELSE DigitsPrefix(rest, 0)

\* Array.prototype.sort((a, b) => a - b): stable, ascending
RECURSIVE Insert(_, _)
Insert(sorted, x) ==
    IF sorted = <<>> THEN <<x>>
    ELSE IF x < sorted[1] THEN <<x>> \o sorted
         ELSE <<sorted[1]>> \o Insert(Tail(sorted), x)
RECURSIVE Sort(_)
Sort(xs) == IF xs = <<>> THEN <<>> ELSE Insert(Sort(SubSeq(xs, 1, Len(xs) - 1)), xs[Len(xs)])

\* the for loop of parseFile over the lines from i on: times and invalidLines
RECURSIVE ParseLines(_, _, _)
ParseLines(lines, i, acc) ==
    IF i > Len(lines) THEN acc
    ELSE LET trimmed == Trim(lines[i])
         IN  IF trimmed = <<>> \/ trimmed[1] = "#"
             THEN ParseLines(lines, i + 1, acc)
             ELSE LET time == ParseFloat(trimmed)
                  IN  IF time = NaN \/ time < 0
                      THEN ParseLines(lines, i + 1,
                               [acc EXCEPT !.invalidLines = Append(@, i)])
                      ELSE ParseLines(lines, i + 1,
                               [acc EXCEPT !.times = Append(@, time)])

\* ParseFile without the final sort
ParseFileUnsorted(lines) ==
    IF \A i \in 1..Len(lines) : Trim(lines[i]) = <<>>
    THEN [threw |-> TRUE, times |-> <<>>]
    ELSE LET r == ParseLines(lines, 1, [times |-> <<>>, invalidLines |-> <<>>])
         IN  IF Len(r.invalidLines) > 0 THEN [threw |-> TRUE, times |-> <<>>]
             ELSE IF Len(r.times) = 0 THEN [threw |-> TRUE, times |-> <<>>]
             ELSE [threw |-> FALSE, times |-> r.times]

\* parseFile: [threw |-> TRUE] or [threw |-> FALSE, times |-> the sorted times]
ParseFile(lines) ==
    IF \A i \in 1..Len(lines) : Trim(lines[i]) = <<>>
    THEN [threw |-> TRUE, times |-> <<>>]
    ELSE LET r == ParseLines(lines, 1, [times |-> <<>>, invalidLines |-> <<>>])
         IN  IF Len(r.invalidLines) > 0 THEN [threw |-> TRUE, times |-> <<>>]
             ELSE IF Len(r.times) = 0 THEN [threw |-> TRUE, times |-> <<>>]
             ELSE [threw |-> FALSE, times |-> Sort(r.times)]

\* event ids in use
Ids == UNION {{i - 1 : i \in 1..Len(ts)} : ts \in TimeLists}

\* ToEvents numbering the events from the last to the first
ToEventsCountingDown(ts) == [i \in 1..Len(ts) |-> [id |-> Len(ts) - i, time |-> ts[i]]]

\* times.map((time, index) => ({ id: index, time }))
ToEvents(ts) == [i \in 1..Len(ts) |-> [id |-> i - 1, time |-> ts[i]]]


\* ---- utils/patternLoader: values ------------------------------------------
\* A timing is a whole number of units or one of three values that are not
\* finite numbers.  JSON text cannot hold NaN or Infinity: JSON.stringify
\* writes them as null.
PosInfinity == 999
JsonNull == -998

Phases == {"phase1", "phase2"}

Pattern(id, name, timings, videoPath) ==
    [id |-> id, name |-> name, timings |-> timings, videoPath |-> videoPath]

\* simonPatternsData, the content of data/simonPatterns.json
DefaultPatterns ==
    [phase1 |-> << Pattern("a", "A", <<1, 2>>, "a.mp4"),
                   Pattern("b", "B", <<0>>, "b.mp4") >>,
     phase2 |-> << Pattern("c", "C", <<0, 1>>, "c.mp4") >>]

\* timings found in stored JSON
StoredTimings == {<<>>, <<1>>, <<0, 2>>, <<2, 1>>, <<1, 1>>, <<-1>>, <<JsonNull>>}
\* timings passed to updatePattern
NewTimings == {<<>>, <<2>>, <<0, 1>>, <<1, 0>>, <<1, 1>>, <<-1, 0>>,
               <<NaN>>, <<0, PosInfinity>>}
\* pattern ids passed to updatePattern
PatternIds == {"a", "c", "zz"}

\* patterns found in stored JSON; "" stands for a missing or empty field
StoredPatterns ==
    {Pattern(id, name, ts, v) :
        id \in {"", "b"}, name \in {"", "B"}, ts \in StoredTimings, v \in {"", "b.mp4"}}

NoPatterns == [phase1 |-> <<>>, phase2 |-> <<>>]

StoredPatternSets ==
    {[phase1 |-> p1, phase2 |-> p2] :
        p1 \in {<<>>} \cup {<<p>> : p \in StoredPatterns}
                      \cup {<<Pattern("a", "A", <<1>>, "a.mp4"), p>> : p \in StoredPatterns},
        p2 \in {<<>>, <<Pattern("c", "C", <<2>>, "c.mp4")>>,
                <<Pattern("a", "", <<2>>, "c.mp4")>>}}

\* pattern sets passed to saveSimonPatterns
SavedPatternSets ==
    {DefaultPatterns,
     [DefaultPatterns EXCEPT !.phase1[2].timings = <<1, 2>>],
     [DefaultPatterns EXCEPT !.phase2 = <<>>],
     [DefaultPatterns EXCEPT !.phase1[1].timings = <<NaN>>],
     [DefaultPatterns EXCEPT !.phase2[1].timings = <<1, 1>>]}

\* A string, or the null of localStorage.getItem: "absent" is null, "empty"
\* the string '', "garbage" a string JSON.parse rejects, "scalar" the JSON
\* text of a value that is not an object, "nophase" that of an object with a
\* phase that is not an array, "patterns" that of an object with two arrays
\* of patterns
Item(kind, value) == [kind |-> kind, value |-> value]
NoItem == Item("absent", NoPatterns)
JsonStrings ==
    {Item(k, NoPatterns) : k \in {"empty", "garbage", "scalar", "nophase"}}
        \cup {Item("patterns", v) : v \in StoredPatternSets}
StorageValues == {NoItem} \cup JsonStrings

\* ---- PatternEditor and its interfaces: values ----------------------------
\* TimingAdjustmentInterface as mounted with the props pattern.timings and
\* capturedTimings: the state of useState and no onSave call
Adjustment(pattern, captured, adjusted, base) ==
    [pattern |-> pattern, captured |-> captured,
     adjustedTimings |-> adjusted, baseTimings |-> base,
     globalOffset |-> 0, offsetSource |-> "captured",
     saveCalled |-> FALSE, savedTimings |-> <<>>]

\* CalibrationInterface as mounted for a pattern of n timings: the state of
\* useState, performance.now(), the values of the last render (which the
\* buttons show and the attached key listener has closed over), and no
\* onComplete call
Calibration(n) ==
    [length |-> n, isRecording |-> FALSE, capturedTimings |-> <<>>,
     startTime |-> Null, clock |-> 0,
     rendered |-> [isRecording |-> FALSE, startTime |-> Null, capturedTimings |-> <<>>],
     completed |-> FALSE, passed |-> <<>>]

\* "" stands for selectedPattern: null and for error: null
NoPattern == Pattern("", "", <<>>, "")
\* PatternEditor after its mount effect loaded the pattern set
Editor(patterns) ==
    [patterns |-> patterns, selectedPhase |-> "phase1", selectedPattern |-> NoPattern,
     editMode |-> "view", capturedTimings |-> <<>>, error |-> ""]

\* the pattern editor is not mounted
ToolsIdle ==
    /\ adjustment = Adjustment(<<>>, <<>>, <<>>, <<>>)
    /\ calibration = Calibration(0)
    /\ editor = Editor(NoPatterns)

\* no patternLoader function was called yet
LibraryIdle ==
    /\ storage = NoItem
    /\ returned = NoPatterns
    /\ threw = FALSE
    /\ lastCall = "none"
    /\ ToolsIdle

\* ---- utils/patternLoader: functions ---------------------------------------
\* typeof timing === 'number'
IsNumber(v) == v # JsonNull
\* isFinite(timing), for a number
IsFinite(v) == v # NaN /\ v # PosInfinity
\* a < b and a <= b of numbers: false when one of them is NaN
Less(a, b) == a # NaN /\ b # NaN /\ a < b
LessOrEqual(a, b) == a # NaN /\ b # NaN /\ a <= b

\* validateTimings comparing with < in place of <=
ValidateTimingsNonStrict(timings) ==
    /\ Len(timings) # 0
    /\ \A i \in 1..Len(timings) :
          /\ ~(~IsNumber(timings[i]) \/ Less(timings[i], 0) \/ ~IsFinite(timings[i]))
          /\ ~(i > 1 /\ Less(timings[i], timings[i - 1]))

\* validateTimings: the loop returns false at the first timing that fails
ValidateTimings(timings) ==
    /\ Len(timings) # 0
    /\ \A i \in 1..Len(timings) :
          /\ ~(~IsNumber(timings[i]) \/ Less(timings[i], 0) \/ ~IsFinite(timings[i]))
          /\ ~(i > 1 /\ LessOrEqual(timings[i], timings[i - 1]))

\* JSON.parse
JsonParse(str) ==
    [threw |-> str.kind \in {"empty", "garbage"}, shape |-> str.kind, value |-> str.value]

\* JSON.stringify of a pattern set
JsonStringify(patterns) ==
    LET number(v) == IF IsNumber(v) /\ IsFinite(v) THEN v ELSE JsonNull
        pattern(p) == [p EXCEPT !.timings = [i \in 1..Len(p.timings) |-> number(p.timings[i])]]
    IN  Item("patterns",
             [ph \in Phases |-> [k \in 1..Len(patterns[ph]) |-> pattern(patterns[ph][k])]])

\* validatePatternsStructure
ValidatePatternsStructure(parsed) ==
    /\ parsed.shape \notin {"scalar", "nophase"}
    /\ \A ph \in Phases : \A k \in 1..Len(parsed.value[ph]) :
          LET pattern == parsed.value[ph][k]
          IN  /\ ~(pattern.id = "" \/ pattern.name = "" \/ pattern.videoPath = "")
              /\ ValidateTimings(pattern.timings)

\* loadSimonPatterns returning whatever JSON.parse returns
LoadSimonPatternsUnvalidated(item) ==
    IF item.kind \notin {"absent", "empty"}
    THEN LET parsed == JsonParse(item)
         IN  IF parsed.threw THEN DefaultPatterns ELSE parsed.value
    ELSE DefaultPatterns

\* loadSimonPatterns for the content item of the storage key; an exception
\* of JSON.parse is caught
LoadSimonPatterns(item) ==
    IF item.kind \notin {"absent", "empty"}
    THEN LET parsed == JsonParse(item)
         IN  IF parsed.threw THEN DefaultPatterns
             ELSE IF ValidatePatternsStructure(parsed) THEN parsed.value
             ELSE DefaultPatterns
    ELSE DefaultPatterns

\* phasePatterns.findIndex(p => p.id === patternId), 0 for -1
FindIndex(phasePatterns, patternId) ==
    LET ks == {k \in 1..Len(phasePatterns) : phasePatterns[k].id = patternId}
    IN  IF ks = {} THEN 0 ELSE CHOOSE k \in ks : \A j \in ks : k <= j

\* ---- SimonSimulator.handleKeyPress: the matching loop --------------------
\* Delta with the operands exchanged
DeltaReversed(pressTime, time) == ((time - pressTime) * 1000) \div UnitsPerSecond

\* (pressTime - eventItem.time) * 1000, in ms
Delta(pressTime, time) == ((pressTime - time) * 1000) \div UnitsPerSecond

\* AlreadyMatched without the comparison of the event id
AlreadyMatchedAnyId(prs, id) ==
    \E k \in 1..Len(prs) : prs[k].matched

\* presses.some(p => p.eventId === eventItem.id && p.matched)
AlreadyMatched(prs, id) ==
    \E k \in 1..Len(prs) : prs[k].eventId = id /\ prs[k].matched

\* ScanStep replacing bestMatch also on an equal |delta|
ScanStepLaterOnTie(acc, eventItem, prs, pressTime, toleranceMs) ==
    IF AlreadyMatched(prs, eventItem.id)
    THEN acc
    ELSE LET delta == Delta(pressTime, eventItem.time)
             cand == <<[event |-> eventItem, delta |-> delta]>>
             nearest == IF acc.nearestEvent = <<>>
                           \/ Abs(delta) < Abs(acc.nearestEvent[1].delta)
                        THEN cand ELSE acc.nearestEvent
             best == IF Abs(delta) <= toleranceMs
                        /\ (acc.bestMatch = <<>>
                            \/ Abs(delta) <= Abs(acc.bestMatch[1].delta))
                     THEN cand ELSE acc.bestMatch
         IN  [bestMatch |-> best, nearestEvent |-> nearest]

\* ScanStep without the skip of already matched events
ScanStepNoSkip(acc, eventItem, prs, pressTime, toleranceMs) ==
    LET delta == Delta(pressTime, eventItem.time)
        cand == <<[event |-> eventItem, delta |-> delta]>>
        nearest == IF acc.nearestEvent = <<>>
                      \/ Abs(delta) < Abs(acc.nearestEvent[1].delta)
                   THEN cand ELSE acc.nearestEvent
        best == IF Abs(delta) <= toleranceMs
                   /\ (acc.bestMatch = <<>>
                       \/ Abs(delta) < Abs(acc.bestMatch[1].delta))
                THEN cand ELSE acc.bestMatch
    IN  [bestMatch |-> best, nearestEvent |-> nearest]

\* One iteration of the for loop over events; acc holds bestMatch and
\* nearestEvent, each <<>> for null or a one-element sequence.
ScanStep(acc, eventItem, prs, pressTime, toleranceMs) ==
    IF AlreadyMatched(prs, eventItem.id)
    THEN acc
    ELSE LET delta == Delta(pressTime, eventItem.time)
             cand == <<[event |-> eventItem, delta |-> delta]>>
             nearest == IF acc.nearestEvent = <<>>
                           \/ Abs(delta) < Abs(acc.nearestEvent[1].delta)
                        THEN cand ELSE acc.nearestEvent
             best == IF Abs(delta) <= toleranceMs
                        /\ (acc.bestMatch = <<>>
                            \/ Abs(delta) < Abs(acc.bestMatch[1].delta))
                     THEN cand ELSE acc.bestMatch
         IN  [bestMatch |-> best, nearestEvent |-> nearest]

RECURSIVE Scan(_, _, _, _, _, _)
Scan(i, acc, evs, prs, pressTime, toleranceMs) ==
    IF i > Len(evs)
    THEN acc
    ELSE Scan(i + 1, ScanStep(acc, evs[i], prs, pressTime, toleranceMs),
              evs, prs, pressTime, toleranceMs)

\* const newPress: Press = { ... }
NewPress(evs, prs, pressTime, toleranceMs) ==
    LET r == Scan(1, [bestMatch |-> <<>>, nearestEvent |-> <<>>],
                  evs, prs, pressTime, toleranceMs)
    IN  [eventId |-> IF r.bestMatch # <<>> THEN r.bestMatch[1].event.id
                     ELSE IF r.nearestEvent # <<>> THEN r.nearestEvent[1].event.id
                     ELSE Null,
         time    |-> pressTime,
         delta   |-> IF r.bestMatch # <<>> THEN r.bestMatch[1].delta
                     ELSE IF r.nearestEvent # <<>> THEN r.nearestEvent[1].delta
                     ELSE 0,
         matched |-> r.bestMatch # <<>>]

\* ---- rendering -----------------------------------------------------------
\* The values a render hands to the closures built in it.
Snapshot(playing, t, prs) == [isPlaying |-> playing, now |-> t, presses |-> prs]

\* The animation loop effect of usePlayback, run after a render in which
\* state.isPlaying or tick (built from state.isPlaying, events, options)
\* changed: the cleanup cancels the pending frame, the body requests one
\* when playing.  Otherwise the pending frame stays as it is.
LoopEffect(depsChanged, playing, pending) ==
    IF depsChanged THEN playing ELSE pending

Init ==
    /\ clock = 0
    /\ events = <<>>
    /\ presses = <<>>
    /\ inputError = FALSE
    /\ options = InitialOptions
    /\ isPlaying = FALSE
    /\ now = 0
    /\ startTime = 0
    /\ played = {}
    /\ rafPending = FALSE
    /\ rendered = Snapshot(FALSE, 0, <<>>)
    /\ cues = [id \in Ids |-> 0]
    /\ edits = 0
    /\ autoStopped = FALSE
    /\ ticked = FALSE
    /\ accepted = 0
    /\ startedFrom = "Untracked"
    /\ text = InitialText
    /\ LibraryIdle

\* the value of startedFrom after an operation that leaves the run in state s
Track(s) == IF startedFrom = "Untracked" THEN "Untracked" ELSE s

\* Time passes.  Only start and tick read performance.now(), and only the
\* difference to startTimeRef is used, so time is followed while a run is on.
Advance ==
    /\ clock < MaxClock
    /\ isPlaying \/ rafPending
    /\ clock' = clock + 1
    /\ UNCHANGED <<events, presses, inputError, options, isPlaying, now,
                   startTime, played, rafPending, rendered, edits, cues, autoStopped,
                   ticked, accepted, startedFrom>>
    /\ UNCHANGED libVars

\* React renders the state set by tick or by handleKeyPress.
Render ==
    /\ rendered # Snapshot(isPlaying, now, presses)
    /\ rendered' = Snapshot(isPlaying, now, presses)
    /\ rafPending' = LoopEffect(rendered.isPlaying # isPlaying, isPlaying, rafPending)
    /\ UNCHANGED <<clock, events, presses, inputError, options, isPlaying, now,
                   startTime, played, edits, cues, autoStopped, ticked, accepted, startedFrom>>
    /\ UNCHANGED libVars

\* ---- usePlayback.tick ----------------------------------------------------
\* Due stopping at the first due event of the list
DueFirstOnly(evs, adjustedTime, done) ==
    LET js == {j \in 1..Len(evs) :
                 adjustedTime >= evs[j].time /\ evs[j].id \notin done}
    IN  {evs[j].id : j \in {k \in js : \A m \in js : k <= m}}

\* Due without the test of playedEventsRef
DueIgnoringPlayed(evs, adjustedTime, done) ==
    {evs[i].id : i \in {j \in 1..Len(evs) : adjustedTime >= evs[j].time}}

\* events whose click plays at adjustedTime
Due(evs, adjustedTime, done) ==
    {evs[i].id : i \in {j \in 1..Len(evs) :
                          adjustedTime >= evs[j].time /\ evs[j].id \notin done}}

\* number of clicks played for id in one forEach pass: every list entry with
\* that id that is due, until the id is in playedEventsRef
Clicks(evs, adjustedTime, done, id) ==
    IF id \in Due(evs, adjustedTime, done) THEN 1 ELSE 0

\* AutoStopDue with a grace period of 3 s
AutoStopDueLate(evs, adjustedTime) ==
    LET lastEventTime == IF Len(evs) > 0 THEN MaxEventTime(evs) ELSE 0
    IN  adjustedTime >= lastEventTime + 3 * UnitsPerSecond

AutoStopDue(evs, adjustedTime) ==
    LET lastEventTime == IF Len(evs) > 0 THEN MaxEventTime(evs) ELSE 0
    IN  adjustedTime >= lastEventTime + 2 * UnitsPerSecond

\* Tick evaluating auto-stop before the cues: a stopping tick plays none
TickStopsFirst ==
    /\ rafPending
    /\ IF ~rendered.isPlaying
       THEN /\ rafPending' = FALSE
            /\ UNCHANGED <<now, played, cues, isPlaying, autoStopped,
                           ticked, startedFrom>>
       ELSE LET elapsed == clock - startTime
                adjustedTime == elapsed - options.preRollSeconds
            IN  /\ now' = adjustedTime
                /\ IF AutoStopDue(events, adjustedTime)
                   THEN /\ isPlaying' = FALSE
                        /\ rafPending' = FALSE
                        /\ autoStopped' = TRUE
                        /\ ticked' = FALSE
                        /\ startedFrom' = Track("Stopped")
                        /\ UNCHANGED <<played, cues>>
                   ELSE /\ played' = played \cup Due(events, adjustedTime, played)
                        /\ cues' = [id \in Ids |->
                                       cues[id] + Clicks(events, adjustedTime, played, id)]
                        /\ rafPending' = TRUE
                        /\ ticked' = TRUE
                        /\ UNCHANGED <<isPlaying, autoStopped, startedFrom>>
    /\ UNCHANGED <<clock, events, presses, inputError, options, startTime, rendered, edits,
                   accepted>>
    /\ UNCHANGED libVars

\* The requested animation frame runs tick, the closure of the last render.
Tick ==
    /\ rafPending
    /\ IF ~rendered.isPlaying
       THEN /\ rafPending' = FALSE
            /\ UNCHANGED <<now, played, cues, isPlaying, autoStopped,
                           ticked, startedFrom>>
       ELSE LET elapsed == clock - startTime
                adjustedTime == elapsed - options.preRollSeconds
            IN  /\ now' = adjustedTime
                /\ played' = played \cup Due(events, adjustedTime, played)
                /\ cues' = [id \in Ids |->
                               cues[id] + Clicks(events, adjustedTime, played, id)]
                /\ IF AutoStopDue(events, adjustedTime)
                   THEN /\ isPlaying' = FALSE
                        /\ rafPending' = FALSE
                        /\ autoStopped' = TRUE
                        /\ ticked' = FALSE
                        /\ startedFrom' = Track("Stopped")
                   ELSE /\ rafPending' = TRUE
                        /\ ticked' = TRUE
                        /\ UNCHANGED <<isPlaying, autoStopped, startedFrom>>
    /\ UNCHANGED <<clock, events, presses, inputError, options, startTime, rendered, edits,
                   accepted>>
    /\ UNCHANGED libVars

\* ---- SimonSimulator.handleKeyPress --------------------------------------
\* KeyPress with setPresses([...presses, newPress]) in place of the updater function
KeyPressStaleAppend(code) ==
    /\ Len(presses) < MaxPresses
    /\ IF code = "Space" /\ rendered.isPlaying
       THEN /\ accepted' = accepted + 1
            /\ presses' = Append(rendered.presses,
                    NewPress(events, rendered.presses, rendered.now, options.toleranceMs))
       ELSE UNCHANGED <<presses, accepted>>
    /\ UNCHANGED <<clock, events, inputError, options, isPlaying, now,
                   startTime, played, rafPending, rendered, edits, cues, autoStopped,
                   ticked, startedFrom>>
    /\ UNCHANGED libVars

\* The keydown listener attached after the last render.
KeyPress(code) ==
    /\ Len(presses) < MaxPresses
    /\ IF code = "Space" /\ rendered.isPlaying
       THEN /\ accepted' = accepted + 1
            /\ presses' = Append(presses,
                    NewPress(events, rendered.presses, rendered.now, options.toleranceMs))
       ELSE UNCHANGED <<presses, accepted>>
    /\ UNCHANGED <<clock, events, inputError, options, isPlaying, now,
                   startTime, played, rafPending, rendered, edits, cues, autoStopped,
                   ticked, startedFrom>>
    /\ UNCHANGED libVars

\* ---- Controls: the Play / Stop button and Reset --------------------------
\* disabled={isPlaying && hasError}
PlayDisabledWhilePlaying == rendered.isPlaying /\ inputError

\* disabled={!isPlaying && hasError}
PlayDisabled == ~rendered.isPlaying /\ inputError

\* Play without startTimeRef.current = performance.now()
PlayKeepsOrigin ==
    /\ ~rendered.isPlaying
    /\ ~PlayDisabled
    /\ presses' = <<>>
    /\ startTime' = startTime
    /\ played' = {}
    /\ isPlaying' = TRUE
    /\ rendered' = Snapshot(TRUE, now, <<>>)
    /\ rafPending' = LoopEffect(rendered.isPlaying # TRUE, TRUE, rafPending)
    /\ cues' = [id \in Ids |-> 0]
    /\ autoStopped' = FALSE
    /\ ticked' = FALSE
    /\ accepted' = 0
    /\ UNCHANGED <<clock, events, inputError, options, now, edits, startedFrom>>
    /\ UNCHANGED libVars

\* onClick with isPlaying false: handlePlay = setPresses([]); start()
Play ==
    /\ ~rendered.isPlaying
    /\ ~PlayDisabled
    /\ presses' = <<>>
    /\ startTime' = clock
    /\ played' = {}
    /\ isPlaying' = TRUE
    /\ rendered' = Snapshot(TRUE, now, <<>>)
    /\ rafPending' = LoopEffect(rendered.isPlaying # TRUE, TRUE, rafPending)
    /\ cues' = [id \in Ids |-> 0]
    /\ autoStopped' = FALSE
    /\ ticked' = FALSE
    /\ accepted' = 0
    /\ UNCHANGED <<clock, events, inputError, options, now, edits, startedFrom>>
    /\ UNCHANGED libVars

\* Stop without cancelAnimationFrame: the requested frame stays
StopKeepsFrame ==
    /\ rendered.isPlaying
    /\ isPlaying' = FALSE
    /\ rendered' = Snapshot(FALSE, now, presses)
    /\ rafPending' = rafPending
    /\ ticked' = FALSE
    /\ startedFrom' = Track("Stopped")
    /\ UNCHANGED <<clock, events, presses, inputError, options, now,
                   startTime, played, edits, cues, autoStopped, accepted>>
    /\ UNCHANGED libVars

\* onClick with isPlaying true: usePlayback.stop
Stop ==
    /\ rendered.isPlaying
    /\ isPlaying' = FALSE
    /\ rendered' = Snapshot(FALSE, now, presses)
    /\ rafPending' = LoopEffect(rendered.isPlaying # FALSE, FALSE, FALSE)
    /\ ticked' = FALSE
    /\ startedFrom' = Track("Stopped")
    /\ UNCHANGED <<clock, events, presses, inputError, options, now,
                   startTime, played, edits, cues, autoStopped, accepted>>
    /\ UNCHANGED libVars

\* Reset without setState({ isPlaying: false, now: 0 }): only stop() and the clears
ResetKeepsNow ==
    /\ played' = {}
    /\ isPlaying' = FALSE
    /\ now' = now
    /\ presses' = <<>>
    /\ rendered' = Snapshot(FALSE, now, <<>>)
    /\ rafPending' = LoopEffect(rendered.isPlaying # FALSE, FALSE, FALSE)
    /\ ticked' = FALSE
    /\ accepted' = 0
    /\ startedFrom' = Track("Idle")
    /\ UNCHANGED <<clock, events, inputError, options, startTime, edits, cues, autoStopped>>
    /\ UNCHANGED libVars

\* handleReset = reset(); setPresses([])
Reset ==
    /\ played' = {}
    /\ isPlaying' = FALSE
    /\ now' = 0
    /\ presses' = <<>>
    /\ rendered' = Snapshot(FALSE, 0, <<>>)
    /\ rafPending' = LoopEffect(rendered.isPlaying # FALSE, FALSE, FALSE)
    /\ ticked' = FALSE
    /\ accepted' = 0
    /\ startedFrom' = Track("Idle")
    /\ UNCHANGED <<clock, events, inputError, options, startTime, edits, cues, autoStopped>>
    /\ UNCHANGED libVars

\* ---- Controls: option inputs --------------------------------------------
\* parseInt(e.target.value) || 100
ParseTolerance(v) == IF v = NaN \/ v = 0 THEN 100 ELSE v

\* parseFloat(e.target.value) || 0
ParsePreRoll(v) == IF v = NaN \/ v = 0 THEN 0 ELSE v

SetTolerance(v) ==
    /\ edits < MaxEdits
    /\ edits' = edits + 1
    /\ options' = [options EXCEPT !.toleranceMs = ParseTolerance(v)]
    /\ rendered' = Snapshot(isPlaying, now, presses)
    /\ rafPending' = LoopEffect(TRUE, isPlaying, rafPending)
    /\ UNCHANGED <<clock, events, presses, inputError, isPlaying, now,
                   startTime, played, cues, autoStopped, ticked, accepted, startedFrom>>
    /\ UNCHANGED libVars

SetPreRoll(v) ==
    /\ edits < MaxEdits
    /\ edits' = edits + 1
    /\ options' = [options EXCEPT !.preRollSeconds = ParsePreRoll(v)]
    /\ rendered' = Snapshot(isPlaying, now, presses)
    /\ rafPending' = LoopEffect(TRUE, isPlaying, rafPending)
    /\ UNCHANGED <<clock, events, presses, inputError, isPlaying, now,
                   startTime, played, cues, autoStopped, ticked, accepted, startedFrom>>
    /\ UNCHANGED libVars

\* ---- TimingInput.parseAndLoadEvents --------------------------------------
\* parseFile succeeded with the times ts
LoadEvents(ts) ==
    /\ edits < MaxEdits
    /\ edits' = edits + 1
    /\ events' = ToEvents(ts)
    /\ inputError' = FALSE
    /\ rendered' = Snapshot(isPlaying, now, presses)
    /\ rafPending' = LoopEffect(TRUE, isPlaying, rafPending)
    /\ UNCHANGED <<clock, presses, options, isPlaying, now,
                   startTime, played, cues, autoStopped, ticked, accepted, startedFrom>>
    /\ UNCHANGED libVars

\* LoadInvalid that also stops the run
LoadInvalidStops ==
    /\ edits < MaxEdits
    /\ edits' = edits + 1
    /\ events' = <<>>
    /\ inputError' = TRUE
    /\ isPlaying' = FALSE
    /\ rendered' = Snapshot(FALSE, now, presses)
    /\ rafPending' = LoopEffect(TRUE, FALSE, rafPending)
    /\ UNCHANGED <<clock, presses, options, now,
                   startTime, played, cues, autoStopped, ticked, accepted, startedFrom>>
    /\ UNCHANGED libVars

\* parseFile threw
LoadInvalid ==
    /\ edits < MaxEdits
    /\ edits' = edits + 1
    /\ events' = <<>>
    /\ inputError' = TRUE
    /\ rendered' = Snapshot(isPlaying, now, presses)
    /\ rafPending' = LoopEffect(TRUE, isPlaying, rafPending)
    /\ UNCHANGED <<clock, presses, options, isPlaying, now,
                   startTime, played, cues, autoStopped, ticked, accepted, startedFrom>>
    /\ UNCHANGED libVars

Next ==
    \/ Advance
    \/ Render
    \/ Tick
    \/ \E code \in {"Space", "Enter"} : KeyPress(code)
    \/ Play
    \/ Stop
    \/ Reset
    \/ \E v \in ToleranceInputs : SetTolerance(v)
    \/ \E v \in PreRollInputs : SetPreRoll(v)
    \/ \E ts \in TimeLists : LoadEvents(ts)
    \/ LoadInvalid

Spec == Init /\ [][Next]_vars

\* ---- runs with fixed targets and options ---------------------------------
\* The user loads the pattern and edits the options only while no run is
\* playing, and startedFrom is followed.
InitFixedRun ==
    /\ clock = 0
    /\ events = <<>>
    /\ presses = <<>>
    /\ inputError = FALSE
    /\ options = InitialOptions
    /\ isPlaying = FALSE
    /\ now = 0
    /\ startTime = 0
    /\ played = {}
    /\ rafPending = FALSE
    /\ rendered = Snapshot(FALSE, 0, <<>>)
    /\ cues = [id \in Ids |-> 0]
    /\ edits = 0
    /\ autoStopped = FALSE
    /\ ticked = FALSE
    /\ accepted = 0
    /\ startedFrom = "Idle"
    /\ text = InitialText
    /\ LibraryIdle

NextFixedRun ==
    \/ Advance
    \/ Render
    \/ Tick
    \/ \E code \in {"Space", "Enter"} : KeyPress(code)
    \/ Play
    \/ Stop
    \/ Reset
    \/ ~isPlaying /\ \E v \in ToleranceInputs : SetTolerance(v)
    \/ ~isPlaying /\ \E v \in PreRollInputs : SetPreRoll(v)
    \/ ~isPlaying /\ \E ts \in TiedTimeLists : LoadEvents(ts)
    \/ ~isPlaying /\ LoadInvalid

SpecFixedRun == InitFixedRun /\ [][NextFixedRun]_vars

\* ---- runs under fair ticking ----------------------------------------------
\* The runs of SpecFixedRun without key presses and tolerance edits, which
\* the playback loop does not read.  The browser runs every requested
\* animation frame and time advances while a run is on.
NextLive ==
    \/ Advance
    \/ Render
    \/ Tick
    \/ Play
    \/ Stop
    \/ Reset
    \/ ~isPlaying /\ \E v \in PreRollInputs : SetPreRoll(v)
    \/ ~isPlaying /\ \E ts \in TiedTimeLists : LoadEvents(ts)
    \/ ~isPlaying /\ LoadInvalid

SpecLive == InitFixedRun /\ [][NextLive]_vars /\ WF_vars(Tick) /\ WF_vars(Advance)

\* ---- parsing the timing text ---------------------------------------------
\* parseAndLoadEvents(timingText): the text was typed and is parsed and loaded.
ParseAndLoadEvents ==
    LET r == ParseFile(text)
    IN  /\ events' = IF r.threw THEN <<>> ELSE ToEvents(r.times)
        /\ inputError' = r.threw
        /\ rendered' = Snapshot(isPlaying, now, presses)
        /\ rafPending' = LoopEffect(TRUE, isPlaying, rafPending)
        /\ UNCHANGED <<clock, presses, options, isPlaying, now, startTime, played,
                       edits, cues, autoStopped, ticked, accepted, startedFrom>>
        /\ UNCHANGED libVars

\* The user has typed one of the timing texts.
InitParse ==
    /\ clock = 0
    /\ events = <<>>
    /\ presses = <<>>
    /\ inputError = FALSE
    /\ options = InitialOptions
    /\ isPlaying = FALSE
    /\ now = 0
    /\ startTime = 0
    /\ played = {}
    /\ rafPending = FALSE
    /\ rendered = Snapshot(FALSE, 0, <<>>)
    /\ cues = [id \in Ids |-> 0]
    /\ edits = 0
    /\ autoStopped = FALSE
    /\ ticked = FALSE
    /\ accepted = 0
    /\ startedFrom = "Untracked"
    /\ text \in Texts
    /\ LibraryIdle

NextParse == ParseAndLoadEvents

SpecParse == InitParse /\ [][NextParse]_vars

\* ---- utils/patternLoader: calls -------------------------------------------
\* the state of SimonSimulator and TimingInput
appVars == <<clock, events, presses, inputError, options, isPlaying, now, startTime,
             played, rafPending, rendered, edits, cues, autoStopped, ticked, accepted,
             startedFrom, text>>

\* loadSimonPatterns()
CallLoadSimonPatterns ==
    /\ returned' = LoadSimonPatterns(storage)
    /\ threw' = FALSE
    /\ lastCall' = "load"
    /\ UNCHANGED storage
    /\ UNCHANGED appVars

\* updatePattern giving the new timings to every pattern of the phase
UpdatePatternWholePhase(phase, patternId, newTimings) ==
    LET patterns == LoadSimonPatterns(storage)
        phasePatterns == patterns[phase]
        patternIndex == FindIndex(phasePatterns, patternId)
        updatedPatterns ==
            [patterns EXCEPT ![phase] =
                [index \in 1..Len(phasePatterns) |->
                    [phasePatterns[index] EXCEPT !.timings = newTimings]]]
    IN  /\ lastCall' = "update"
        /\ IF patternIndex = 0 \/ ~ValidateTimings(newTimings)
           THEN /\ threw' = TRUE
                /\ UNCHANGED <<storage, returned>>
           ELSE \E full \in BOOLEAN :
                   IF full
                   THEN /\ threw' = TRUE
                        /\ UNCHANGED <<storage, returned>>
                   ELSE /\ threw' = FALSE
                        /\ storage' = JsonStringify(updatedPatterns)
                        /\ returned' = updatedPatterns
        /\ UNCHANGED appVars

\* updatePattern(phase, patternId, newTimings); localStorage.setItem throws
\* when the storage is full, and saveSimonPatterns then throws
UpdatePattern(phase, patternId, newTimings) ==
    LET patterns == LoadSimonPatterns(storage)
        phasePatterns == patterns[phase]
        patternIndex == FindIndex(phasePatterns, patternId)
        updatedPatterns ==
            [patterns EXCEPT ![phase] =
                [index \in 1..Len(phasePatterns) |->
                    IF index = patternIndex
                    THEN [phasePatterns[index] EXCEPT !.timings = newTimings]
                    ELSE phasePatterns[index]]]
    IN  /\ lastCall' = "update"
        /\ IF patternIndex = 0 \/ ~ValidateTimings(newTimings)
           THEN /\ threw' = TRUE
                /\ UNCHANGED <<storage, returned>>
           ELSE \E full \in BOOLEAN :
                   IF full
                   THEN /\ threw' = TRUE
                        /\ UNCHANGED <<storage, returned>>
                   ELSE /\ threw' = FALSE
                        /\ storage' = JsonStringify(updatedPatterns)
                        /\ returned' = updatedPatterns
        /\ UNCHANGED appVars

\* saveSimonPatterns(patterns); localStorage.setItem throws when the storage
\* is full
SaveSimonPatterns(patterns) ==
    /\ lastCall' = "save"
    /\ \E full \in BOOLEAN :
          IF full
          THEN /\ threw' = TRUE
               /\ UNCHANGED storage
          ELSE /\ threw' = FALSE
               /\ storage' = JsonStringify(patterns)
    /\ UNCHANGED returned
    /\ UNCHANGED appVars

\* resetPatternsToDefault without localStorage.removeItem
ResetPatternsKeepsItem ==
    /\ storage' = storage
    /\ returned' = DefaultPatterns
    /\ threw' = FALSE
    /\ lastCall' = "reset"
    /\ UNCHANGED appVars

\* resetPatternsToDefault()
ResetPatternsToDefault ==
    /\ storage' = NoItem
    /\ returned' = DefaultPatterns
    /\ threw' = FALSE
    /\ lastCall' = "reset"
    /\ UNCHANGED appVars

\* importPatternsFromFile(jsonString): every exception is caught and thrown
\* again as 'Failed to import patterns'
ImportPatternsFromFile(jsonString) ==
    LET parsed == JsonParse(jsonString)
    IN  /\ lastCall' = "import"
        /\ IF parsed.threw \/ ~ValidatePatternsStructure(parsed)
           THEN /\ threw' = TRUE
                /\ UNCHANGED <<storage, returned>>
           ELSE \E full \in BOOLEAN :
                   IF full
                   THEN /\ threw' = TRUE
                        /\ UNCHANGED <<storage, returned>>
                   ELSE /\ threw' = FALSE
                        /\ storage' = JsonStringify(parsed.value)
                        /\ returned' = parsed.value
        /\ UNCHANGED appVars

\* The pattern library on a storage item of any content: the item is written
\* by the functions below, by an earlier version of the program or by hand.
InitPatterns ==
    /\ clock = 0
    /\ events = <<>>
    /\ presses = <<>>
    /\ inputError = FALSE
    /\ options = InitialOptions
    /\ isPlaying = FALSE
    /\ now = 0
    /\ startTime = 0
    /\ played = {}
    /\ rafPending = FALSE
    /\ rendered = Snapshot(FALSE, 0, <<>>)
    /\ cues = [id \in Ids |-> 0]
    /\ edits = 0
    /\ autoStopped = FALSE
    /\ ticked = FALSE
    /\ accepted = 0
    /\ startedFrom = "Untracked"
    /\ text = InitialText
    /\ storage \in StorageValues
    /\ returned = NoPatterns
    /\ threw = FALSE
    /\ lastCall = "none"
    /\ ToolsIdle

NextPatterns ==
    \/ CallLoadSimonPatterns /\ UNCHANGED toolVars
    \/ \E phase \in Phases : \E patternId \in PatternIds : \E newTimings \in NewTimings :
          UpdatePattern(phase, patternId, newTimings) /\ UNCHANGED toolVars
    \/ ResetPatternsToDefault /\ UNCHANGED toolVars
    \/ \E patterns \in SavedPatternSets : SaveSimonPatterns(patterns) /\ UNCHANGED toolVars
    \/ \E jsonString \in {Item("garbage", NoPatterns), Item("scalar", NoPatterns),
                          Item("patterns", DefaultPatterns),
                          Item("patterns", [DefaultPatterns EXCEPT !.phase2 = <<>>]),
                          Item("patterns", [DefaultPatterns EXCEPT
                                               !.phase1[1].timings = <<2, 1>>])} :
          ImportPatternsFromFile(jsonString) /\ UNCHANGED toolVars

SpecPatterns == InitPatterns /\ [][NextPatterns]_vars

\* ---- PatternEditor/TimingAdjustmentInterface --------------------------------
\* Timings are whole numbers of hundredths of a second here: 1 is the 0.01 s
\* that updateIndividualTiming adds.
\* everything outside TimingAdjustmentInterface
notAdjustment == <<appVars, storage, returned, threw, lastCall, calibration, editor>>

\* pattern.timings of the pattern under adjustment: validated timings
AdjustPatterns == {<<1>>, <<1, 2>>, <<0, 1, 3>>}
\* capturedTimings handed by the calibration: at least one press, times >= 0
\* in the order of the presses
CapturedLists == {<<0>>, <<2>>, <<1, 1>>, <<0, 2>>, <<1, 2, 2>>}
\* values of the offset inputs and of the timing inputs, after Number()
OffsetInputs == {-2, -1, 1}
TimingInputs == {-1, 0, 2}

Max(a, b) == IF a >= b THEN a ELSE b

\* the while loop that pads the captured timings with the gaps of the
\* pattern; lastCaptured || 0 is lastCaptured for a number
RECURSIVE PadCaptured(_, _)
PadCaptured(padded, pattern) ==
    IF Len(padded) < Len(pattern)
    THEN LET lastCaptured == padded[Len(padded)]
             originalGap == pattern[Len(padded) + 1] - pattern[Len(padded)]
         IN  PadCaptured(Append(padded, lastCaptured + originalGap), pattern)
    ELSE padded

\* paddedCaptured.slice(0, pattern.timings.length)
FinalCaptured(captured, pattern) ==
    SubSeq(PadCaptured(captured, pattern), 1, Len(pattern))

\* the for loop of updateIndividualTiming from index i on
RECURSIVE Ascend(_, _)
Ascend(newTimings, i) ==
    IF i < Len(newTimings)
    THEN IF newTimings[i] >= newTimings[i + 1]
         THEN Ascend([newTimings EXCEPT ![i + 1] = newTimings[i] + 1], i + 1)
         ELSE Ascend(newTimings, i + 1)
    ELSE newTimings

\* applyGlobalOffset(offset)
ApplyGlobalOffset(offset) ==
    /\ adjustment' = [adjustment EXCEPT
          !.adjustedTimings = [i \in 1..Len(adjustment.baseTimings) |->
                                  Max(0, adjustment.baseTimings[i] + offset)],
          !.globalOffset = offset]
    /\ UNCHANGED notAdjustment

\* the button Apply Suggested
ApplySuggested ==
    /\ Len(adjustment.captured) > 0
    /\ ApplyGlobalOffset(IF adjustment.offsetSource = "original"
                         THEN adjustment.captured[1] - adjustment.pattern[1]
                         ELSE adjustment.pattern[1] - adjustment.captured[1])

\* changeOffsetSource(source)
ChangeOffsetSource(source) ==
    LET newBase == IF source = "original" THEN adjustment.pattern
                   ELSE IF Len(adjustment.captured) > 0
                        THEN FinalCaptured(adjustment.captured, adjustment.pattern)
                        ELSE adjustment.pattern
    IN  /\ adjustment' = [adjustment EXCEPT
              !.offsetSource = source,
              !.baseTimings = newBase,
              !.globalOffset = 0,
              !.adjustedTimings = newBase]
        /\ UNCHANGED notAdjustment

\* replaceWithCaptured()
ReplaceWithCaptured ==
    /\ adjustment' = [adjustment EXCEPT
          !.adjustedTimings = FinalCaptured(adjustment.captured, adjustment.pattern)]
    /\ UNCHANGED notAdjustment

\* updateIndividualTiming without the loop that restores the order
UpdateIndividualTimingUnordered(index, value) ==
    /\ index \in 1..Len(adjustment.adjustedTimings)
    /\ adjustment' = [adjustment EXCEPT
          !.adjustedTimings = [adjustment.adjustedTimings EXCEPT ![index] = Max(0, value)]]
    /\ UNCHANGED notAdjustment

\* updateIndividualTiming(index, value), index being the row of the input
UpdateIndividualTiming(index, value) ==
    /\ index \in 1..Len(adjustment.adjustedTimings)
    /\ adjustment' = [adjustment EXCEPT
          !.adjustedTimings =
              Ascend([adjustment.adjustedTimings EXCEPT ![index] = Max(0, value)], 1)]
    /\ UNCHANGED notAdjustment

\* handleSave(); the button is disabled when the lengths differ
HandleSave ==
    /\ Len(adjustment.adjustedTimings) = Len(adjustment.pattern)
    /\ adjustment' = [adjustment EXCEPT
          !.saveCalled = TRUE,
          !.savedTimings = adjustment.adjustedTimings]
    /\ UNCHANGED notAdjustment

\* The interface mounted for a pattern, in quick edit (the captured timings
\* are the pattern's) or after a calibration, and its mount effect run.
InitAdjust ==
    /\ clock = 0
    /\ events = <<>>
    /\ presses = <<>>
    /\ inputError = FALSE
    /\ options = InitialOptions
    /\ isPlaying = FALSE
    /\ now = 0
    /\ startTime = 0
    /\ played = {}
    /\ rafPending = FALSE
    /\ rendered = Snapshot(FALSE, 0, <<>>)
    /\ cues = [id \in Ids |-> 0]
    /\ edits = 0
    /\ autoStopped = FALSE
    /\ ticked = FALSE
    /\ accepted = 0
    /\ startedFrom = "Untracked"
    /\ text = InitialText
    /\ storage = NoItem
    /\ returned = NoPatterns
    /\ threw = FALSE
    /\ lastCall = "none"
    /\ calibration = Calibration(0)
    /\ editor = Editor(NoPatterns)
    /\ \E pattern \in AdjustPatterns : \E captured \in CapturedLists \cup {pattern} :
          adjustment = Adjustment(pattern, captured,
                                  FinalCaptured(captured, pattern),
                                  FinalCaptured(captured, pattern))

NextAdjust ==
    \/ \E offset \in OffsetInputs : ApplyGlobalOffset(offset)
    \/ ApplyGlobalOffset(adjustment.globalOffset)
    \/ ApplySuggested
    \/ \E source \in {"original", "captured"} : ChangeOffsetSource(source)
    \/ ReplaceWithCaptured
    \/ \E index \in 1..3 : \E value \in TimingInputs : UpdateIndividualTiming(index, value)
    \/ HandleSave

SpecAdjust == InitAdjust /\ [][NextAdjust]_vars

\* ---- PatternEditor/CalibrationInterface ------------------------------------
\* everything outside CalibrationInterface
notCalibration == <<appVars, storage, returned, threw, lastCall, adjustment, editor>>

\* lengths of pattern.timings
CalibrationLengths == {1, 2}

\* the values a render of CalibrationInterface hands to its closures
CalibrationView(c) ==
    [isRecording |-> c.isRecording, startTime |-> c.startTime,
     capturedTimings |-> c.capturedTimings]

\* a click handler has run and React has rendered its state
Shown(c) == [c EXCEPT !.rendered = CalibrationView(c)]

\* Time passes while a recording is on or a listener of it is attached.
CalibrationAdvance ==
    /\ calibration.clock < MaxClock
    /\ calibration.isRecording \/ calibration.rendered.isRecording
    /\ calibration' = [calibration EXCEPT !.clock = @ + 1]
    /\ UNCHANGED notCalibration

\* React renders the state set by the key listener; the effect detaches the
\* listener and attaches the one of this render when isRecording is true.
CalibrationRender ==
    /\ calibration.rendered # CalibrationView(calibration)
    /\ calibration' = Shown(calibration)
    /\ UNCHANGED notCalibration

\* keydown while a listener is attached: handleKeyPress of the last render
\* with isRecording true; the updater of setCapturedTimings gets the current
\* list
CalibrationKeyPress(code) ==
    /\ Len(calibration.capturedTimings) < MaxPresses + 1
    /\ calibration.rendered.isRecording
    /\ IF code = "Space" /\ calibration.rendered.startTime # Null
       THEN LET currentTime == calibration.clock - calibration.rendered.startTime
                newTimings == Append(calibration.capturedTimings, currentTime)
            IN  calibration' = [calibration EXCEPT
                    !.capturedTimings = newTimings,
                    !.isRecording = IF Len(newTimings) >= calibration.length
                                    THEN FALSE ELSE @]
       ELSE UNCHANGED calibration
    /\ UNCHANGED notCalibration

\* startCalibration(), from the button Start Calibration
StartCalibration ==
    /\ ~calibration.rendered.isRecording
    /\ Len(calibration.rendered.capturedTimings) = 0
    /\ calibration' = Shown([calibration EXCEPT
          !.capturedTimings = <<>>,
          !.startTime = calibration.clock,
          !.isRecording = TRUE])
    /\ UNCHANGED notCalibration

\* handleRetry(), from the button Retry
HandleRetry ==
    /\ ~calibration.rendered.isRecording
    /\ Len(calibration.rendered.capturedTimings) > 0
    /\ calibration' = Shown([calibration EXCEPT
          !.capturedTimings = <<>>,
          !.startTime = calibration.clock,
          !.isRecording = TRUE])
    /\ UNCHANGED notCalibration

\* stopCalibration(), from the button Stop Recording
StopCalibration ==
    /\ calibration.rendered.isRecording
    /\ calibration' = Shown([calibration EXCEPT
          !.isRecording = FALSE,
          !.startTime = Null])
    /\ UNCHANGED notCalibration

\* handleComplete(), from the button Continue to Adjustment
HandleComplete ==
    /\ ~calibration.rendered.isRecording
    /\ Len(calibration.rendered.capturedTimings) > 0
    /\ calibration' = Shown(IF Len(calibration.rendered.capturedTimings) > 0
                            THEN [calibration EXCEPT
                                     !.completed = TRUE,
                                     !.passed = calibration.rendered.capturedTimings]
                            ELSE calibration)
    /\ UNCHANGED notCalibration

InitCalibrate ==
    /\ clock = 0
    /\ events = <<>>
    /\ presses = <<>>
    /\ inputError = FALSE
    /\ options = InitialOptions
    /\ isPlaying = FALSE
    /\ now = 0
    /\ startTime = 0
    /\ played = {}
    /\ rafPending = FALSE
    /\ rendered = Snapshot(FALSE, 0, <<>>)
    /\ cues = [id \in Ids |-> 0]
    /\ edits = 0
    /\ autoStopped = FALSE
    /\ ticked = FALSE
    /\ accepted = 0
    /\ startedFrom = "Untracked"
    /\ text = InitialText
    /\ storage = NoItem
    /\ returned = NoPatterns
    /\ threw = FALSE
    /\ lastCall = "none"
    /\ adjustment = Adjustment(<<>>, <<>>, <<>>, <<>>)
    /\ editor = Editor(NoPatterns)
    /\ \E n \in CalibrationLengths : calibration = Calibration(n)

NextCalibrate ==
    \/ CalibrationAdvance
    \/ CalibrationRender
    \/ \E code \in {"Space", "Enter"} : CalibrationKeyPress(code)
    \/ StartCalibration
    \/ HandleRetry
    \/ StopCalibration
    \/ HandleComplete

SpecCalibrate == InitCalibrate /\ [][NextCalibrate]_vars

\* ---- PatternEditor ---------------------------------------------------------
\* The handlers of PatternEditor are React event handlers or callbacks called
\* from such handlers of its interfaces: each ends with the re-render, and
\* reads the state of the last render, which is the current state.
\* the state of the simulator and of the two interfaces
notEditor == <<appVars, adjustment, calibration>>

\* the storage item when the editor is mounted
EditorStorages ==
    {NoItem,
     Item("garbage", NoPatterns),
     Item("patterns", [phase1 |-> <<Pattern("b", "B", <<0, 2>>, "b.mp4")>>,
                       phase2 |-> <<>>])}

\* timing lists passed to onSave by QuickEditInterface and
\* TimingAdjustmentInterface
SaveInputs == {<<2>>, <<0, 1>>, <<0, 0>>, <<1, 1>>}

\* phasePatterns.find(p => p.id === id) || null
FindPattern(phasePatterns, id) ==
    IF FindIndex(phasePatterns, id) = 0 THEN NoPattern
    ELSE phasePatterns[FindIndex(phasePatterns, id)]

\* selectPattern(pattern), from the button of the k-th pattern of the phase
SelectPattern(k) ==
    /\ k \in 1..Len(editor.patterns[editor.selectedPhase])
    /\ editor' = [editor EXCEPT
          !.selectedPattern = editor.patterns[editor.selectedPhase][k],
          !.editMode = "view",
          !.capturedTimings = <<>>,
          !.error = ""]
    /\ UNCHANGED <<storage, returned, threw, lastCall>>
    /\ UNCHANGED notEditor

\* onChange of a phase radio button that leaves editMode as it is
ChangePhaseKeepsMode(phase) ==
    /\ editor' = [editor EXCEPT
          !.selectedPhase = phase,
          !.selectedPattern = NoPattern]
    /\ UNCHANGED <<storage, returned, threw, lastCall>>
    /\ UNCHANGED notEditor

\* onChange of a phase radio button
ChangePhase(phase) ==
    /\ editor' = [editor EXCEPT
          !.selectedPhase = phase,
          !.selectedPattern = NoPattern,
          !.editMode = "view"]
    /\ UNCHANGED <<storage, returned, threw, lastCall>>
    /\ UNCHANGED notEditor

\* the button Quick Edit, shown for a selected pattern in view mode
QuickEdit ==
    /\ editor.selectedPattern # NoPattern
    /\ editor.editMode = "view"
    /\ editor' = [editor EXCEPT !.editMode = "quickEdit"]
    /\ UNCHANGED <<storage, returned, threw, lastCall>>
    /\ UNCHANGED notEditor

\* startCalibration() of PatternEditor, from the button Calibrate Timing
EditorStartCalibration ==
    /\ editor.selectedPattern # NoPattern
    /\ editor.editMode = "view"
    /\ editor' = [editor EXCEPT
          !.editMode = "calibrate",
          !.capturedTimings = <<>>,
          !.error = ""]
    /\ UNCHANGED <<storage, returned, threw, lastCall>>
    /\ UNCHANGED notEditor

\* handleResetToDefaults(), confirmed
HandleResetToDefaults ==
    /\ ResetPatternsToDefault
    /\ editor' = [editor EXCEPT
          !.patterns = returned',
          !.selectedPattern = NoPattern,
          !.editMode = "view"]
    /\ UNCHANGED <<adjustment, calibration>>

\* handleRefreshPatterns()
HandleRefreshPatterns ==
    /\ CallLoadSimonPatterns
    /\ editor' = [editor EXCEPT
          !.patterns = returned',
          !.selectedPattern =
              IF editor.selectedPattern # NoPattern
              THEN FindPattern(returned'[editor.selectedPhase], editor.selectedPattern.id)
              ELSE NoPattern,
          !.error = ""]
    /\ UNCHANGED <<adjustment, calibration>>

\* the message of the Error updatePattern throws
UpdateError(phase, patternId, newTimings) ==
    IF FindIndex(LoadSimonPatterns(storage)[phase], patternId) = 0 THEN "not found"
    ELSE IF ~ValidateTimings(newTimings) THEN "invalid timings"
    ELSE "failed to save"

\* onSave of QuickEditInterface
QuickEditSave(newTimings) ==
    /\ editor.editMode = "quickEdit"
    /\ editor.selectedPattern # NoPattern
    /\ UpdatePattern(editor.selectedPhase, editor.selectedPattern.id, newTimings)
    /\ editor' = IF threw'
                 THEN [editor EXCEPT
                          !.error = UpdateError(editor.selectedPhase,
                                                editor.selectedPattern.id, newTimings)]
                 ELSE [editor EXCEPT
                          !.patterns = returned',
                          !.selectedPattern = FindPattern(returned'[editor.selectedPhase],
                                                          editor.selectedPattern.id),
                          !.editMode = "view"]
    /\ UNCHANGED <<adjustment, calibration>>

\* onCancel of QuickEditInterface (its Discard and Retry buttons)
QuickEditCancel ==
    /\ editor.editMode = "quickEdit"
    /\ editor.selectedPattern # NoPattern
    /\ editor' = [editor EXCEPT !.editMode = "view"]
    /\ UNCHANGED <<storage, returned, threw, lastCall>>
    /\ UNCHANGED notEditor

\* onComplete of CalibrationInterface
CalibrationComplete(capturedTimings) ==
    /\ editor.editMode = "calibrate"
    /\ editor.selectedPattern # NoPattern
    /\ editor' = [editor EXCEPT
          !.capturedTimings = capturedTimings,
          !.editMode = "adjust"]
    /\ UNCHANGED <<storage, returned, threw, lastCall>>
    /\ UNCHANGED notEditor

\* onCancel of CalibrationInterface
CalibrationCancel ==
    /\ editor.editMode = "calibrate"
    /\ editor.selectedPattern # NoPattern
    /\ editor' = [editor EXCEPT
          !.editMode = "view",
          !.capturedTimings = <<>>]
    /\ UNCHANGED <<storage, returned, threw, lastCall>>
    /\ UNCHANGED notEditor

\* onSave of TimingAdjustmentInterface that leaves the adjustment whatever
\* updatePattern does
AdjustSaveAlwaysCloses(newTimings) ==
    /\ editor.editMode = "adjust"
    /\ editor.selectedPattern # NoPattern
    /\ UpdatePattern(editor.selectedPhase, editor.selectedPattern.id, newTimings)
    /\ editor' = IF threw'
                 THEN [editor EXCEPT
                          !.error = UpdateError(editor.selectedPhase,
                                                editor.selectedPattern.id, newTimings),
                          !.editMode = "view",
                          !.capturedTimings = <<>>]
                 ELSE [editor EXCEPT
                          !.patterns = returned',
                          !.selectedPattern = FindPattern(returned'[editor.selectedPhase],
                                                          editor.selectedPattern.id),
                          !.editMode = "view",
                          !.capturedTimings = <<>>]
    /\ UNCHANGED <<adjustment, calibration>>

\* onSave of TimingAdjustmentInterface
AdjustSave(newTimings) ==
    /\ editor.editMode = "adjust"
    /\ editor.selectedPattern # NoPattern
    /\ UpdatePattern(editor.selectedPhase, editor.selectedPattern.id, newTimings)
    /\ editor' = IF threw'
                 THEN [editor EXCEPT
                          !.error = UpdateError(editor.selectedPhase,
                                                editor.selectedPattern.id, newTimings)]
                 ELSE [editor EXCEPT
                          !.patterns = returned',
                          !.selectedPattern = FindPattern(returned'[editor.selectedPhase],
                                                          editor.selectedPattern.id),
                          !.editMode = "view",
                          !.capturedTimings = <<>>]
    /\ UNCHANGED <<adjustment, calibration>>

\* onDiscard of TimingAdjustmentInterface
AdjustDiscard ==
    /\ editor.editMode = "adjust"
    /\ editor.selectedPattern # NoPattern
    /\ editor' = [editor EXCEPT
          !.editMode = "view",
          !.capturedTimings = <<>>]
    /\ UNCHANGED <<storage, returned, threw, lastCall>>
    /\ UNCHANGED notEditor

\* onRetry of TimingAdjustmentInterface
AdjustRetry ==
    /\ editor.editMode = "adjust"
    /\ editor.selectedPattern # NoPattern
    /\ editor' = [editor EXCEPT
          !.editMode = "calibrate",
          !.capturedTimings = <<>>]
    /\ UNCHANGED <<storage, returned, threw, lastCall>>
    /\ UNCHANGED notEditor

\* PatternEditor mounted and its mount effect run
InitEditor ==
    /\ clock = 0
    /\ events = <<>>
    /\ presses = <<>>
    /\ inputError = FALSE
    /\ options = InitialOptions
    /\ isPlaying = FALSE
    /\ now = 0
    /\ startTime = 0
    /\ played = {}
    /\ rafPending = FALSE
    /\ rendered = Snapshot(FALSE, 0, <<>>)
    /\ cues = [id \in Ids |-> 0]
    /\ edits = 0
    /\ autoStopped = FALSE
    /\ ticked = FALSE
    /\ accepted = 0
    /\ startedFrom = "Untracked"
    /\ text = InitialText
    /\ storage \in EditorStorages
    /\ returned = LoadSimonPatterns(storage)
    /\ threw = FALSE
    /\ lastCall = "load"
    /\ adjustment = Adjustment(<<>>, <<>>, <<>>, <<>>)
    /\ calibration = Calibration(0)
    /\ editor = Editor(LoadSimonPatterns(storage))

NextEditor ==
    \/ \E k \in 1..2 : SelectPattern(k)
    \/ \E phase \in Phases : ChangePhase(phase)
    \/ QuickEdit
    \/ EditorStartCalibration
    \/ HandleResetToDefaults
    \/ HandleRefreshPatterns
    \/ \E newTimings \in SaveInputs : QuickEditSave(newTimings)
    \/ QuickEditCancel
    \/ \E capturedTimings \in CapturedLists : CalibrationComplete(capturedTimings)
    \/ CalibrationCancel
    \/ \E newTimings \in SaveInputs : AdjustSave(newTimings)
    \/ AdjustDiscard
    \/ AdjustRetry

SpecEditor == InitEditor /\ [][NextEditor]_vars

\* ---- properties -----------------------------------------------------------
\* a step of handleKeyPress that recorded a press, and the press recorded
PressAdded == Len(presses') = Len(presses) + 1
LastPress == presses'[Len(presses')]

\* the press log the key listener reads holds a matched press for event i
InLog(i) ==
    \E k \in 1..Len(rendered.presses) :
        rendered.presses[k].matched /\ rendered.presses[k].eventId = events[i].id
\* indices of the events not yet matched in that log
Unmatched == {i \in 1..Len(events) : ~InLog(i)}
\* ms between the time t and the time u
Ms(t, u) == ((t - u) * 1000) \div UnitsPerSecond
\* |delta| of event i for a press made now by the key listener
Dist(i) == Abs(Ms(rendered.now, events[i].time))
InTolerance == {i \in Unmatched : Dist(i) <= options.toleranceMs}

MatchedCount(prs) == Cardinality({k \in 1..Len(prs) : prs[k].matched})

\* C1: a target id appears with matched = true in at most one Press of the
\* press log, whatever the interleaving of key presses, ticks and re-renders.
C1_NoDoubleMatch ==
    \A i \in 1..Len(presses) : \A j \in 1..Len(presses) :
        (i < j /\ presses[i].matched /\ presses[j].matched)
            => presses[i].eventId # presses[j].eventId

\* C2: a Press is appended only while the run is Running, that is playing with
\* elapsed >= 0; not while idle, in pre-roll (elapsed < 0) or stopped.
C2_PressOnlyWhileRunning ==
    [][PressAdded => (isPlaying /\ now >= 0)]_vars

\* C3: the cue of a target plays at most once per run, and only at a tick
\* whose elapsed time is >= the target's time (hence never at elapsed < 0).
C3_CueOnceAndDue ==
    [][\A id \in Ids :
          /\ cues'[id] <= 1
          /\ cues'[id] > cues[id] =>
                /\ now' >= 0
                /\ \E i \in 1..Len(events) :
                      events[i].id = id /\ now' >= events[i].time]_vars

\* a cue has played and a later tick of the same run left it played once
C3_Witness ==
    \E i \in 1..Len(events) :
        /\ cues[events[i].id] = 1
        /\ isPlaying
        /\ now > events[i].time

\* C4: if some unmatched target is within tolerance, the press is matched to
\* an unmatched target of minimal |delta|, the one of earlier time on a tie.
C4_BestMatch ==
    [][(PressAdded /\ InTolerance # {}) =>
          /\ LastPress.matched
          /\ \E i \in InTolerance :
                /\ LastPress.eventId = events[i].id
                /\ \A j \in Unmatched : Dist(i) <= Dist(j)
                /\ \A j \in Unmatched :
                      Dist(j) = Dist(i) => events[i].time <= events[j].time]_vars

\* a press was matched to the earlier of two unmatched targets, both at the
\* same distance, the tolerance
C4_Witness ==
    /\ Len(events) = 2
    /\ Len(presses) = 1
    /\ presses[1].matched
    /\ presses[1].eventId = events[1].id
    /\ events[1].time < events[2].time
    /\ Abs(Ms(presses[1].time, events[1].time)) = options.toleranceMs
    /\ Abs(Ms(presses[1].time, events[2].time)) = options.toleranceMs

\* C5: if unmatched targets exist and none is within tolerance, the press is
\* a miss that reports the id and delta of the nearest unmatched target.
C5_MissReportsNearest ==
    [][(PressAdded /\ Unmatched # {} /\ InTolerance = {}) =>
          /\ ~LastPress.matched
          /\ \E i \in Unmatched :
                /\ LastPress.eventId = events[i].id
                /\ LastPress.delta = Ms(rendered.now, events[i].time)
                /\ \A j \in Unmatched : Dist(i) <= Dist(j)]_vars

\* a miss reports the unmatched target although the matched one is nearer
C5_Witness ==
    /\ Len(events) = 2
    /\ Len(presses) = 2
    /\ presses[1].matched
    /\ presses[1].eventId = events[1].id
    /\ ~presses[2].matched
    /\ presses[2].eventId = events[2].id
    /\ presses[2].time = events[1].time
    /\ presses[2].delta = Ms(presses[2].time, events[2].time)

\* C6: a press made when no unmatched target remains is recorded with
\* targetId null, delta 0 and matched false; and of two presses within
\* tolerance of a single target exactly one is matched.
C6_NullWhenAllMatched ==
    [][PressAdded =>
          /\ Unmatched = {} =>
                LastPress = [eventId |-> Null, time |-> rendered.now,
                             delta |-> 0, matched |-> FALSE]
          /\ (/\ Len(events) = 1
              /\ Len(presses') = 2
              /\ \A k \in 1..2 :
                    Abs((presses'[k].time - events[1].time) * 1000)
                        <= options.toleranceMs * UnitsPerSecond)
                => MatchedCount(presses') = 1]_vars

\* C7: the delta of a Press that reports a target is (press time - target
\* time) * 1000 ms, positive when late and negative when early, and the
\* press is matched exactly when |delta| <= toleranceMs, the boundary included.
C7_DeltaAndTolerance ==
    [][(PressAdded /\ LastPress.eventId # Null) =>
          \E i \in 1..Len(events) :
              /\ events[i].id = LastPress.eventId
              /\ LastPress.delta * UnitsPerSecond
                    = (LastPress.time - events[i].time) * 1000
              /\ (LastPress.delta > 0) = (LastPress.time > events[i].time)
              /\ (LastPress.delta < 0) = (LastPress.time < events[i].time)
              /\ LastPress.matched = (Abs(LastPress.delta) <= options.toleranceMs)]_vars

\* a late press exactly at the tolerance is a hit with positive delta
C7_Witness ==
    \E k \in 1..Len(presses) :
        /\ presses[k].matched
        /\ presses[k].delta = options.toleranceMs
        /\ presses[k].delta > 0
        /\ \E i \in 1..Len(events) :
              events[i].id = presses[k].eventId /\ presses[k].time > events[i].time

\* C8: with two targets closer than 2 x toleranceMs a press matches at most
\* one target, and once one of them is matched a press within tolerance of
\* the other, unmatched one is matched to that one.
C8_SecondTargetClaimable ==
    [][PressAdded =>
          /\ MatchedCount(presses') <= MatchedCount(presses) + 1
          /\ \A a \in 1..Len(events) : \A b \in 1..Len(events) :
                (/\ Len(events) = 2
                 /\ a # b
                 /\ Abs(Ms(events[a].time, events[b].time)) < 2 * options.toleranceMs
                 /\ a \notin Unmatched
                 /\ b \in InTolerance)
                    => (LastPress.matched /\ LastPress.eventId = events[b].id)]_vars

\* both of two close targets were matched, each by one press
C8_Witness ==
    /\ Len(events) = 2
    /\ Abs(Ms(events[1].time, events[2].time)) < 2 * options.toleranceMs
    /\ Len(presses) = 2
    /\ presses[1].matched /\ presses[1].eventId = events[1].id
    /\ presses[2].matched /\ presses[2].eventId = events[2].id
    /\ presses[2].time > presses[1].time

\* C9: auto-stop happens at the first tick with elapsed >= last target + 2 s,
\* once per run, from playing to stopped; after it no cue plays and no press
\* is recorded until the next start().
C9_AutoStopFinal ==
    [][Len(events) > 0 =>
          /\ (~autoStopped /\ autoStopped') =>
                 (isPlaying /\ ~isPlaying' /\ AutoStopDue(events, now'))
          /\ (isPlaying /\ now' # now /\ AutoStopDue(events, now')) => ~isPlaying'
          /\ (autoStopped /\ autoStopped') =>
                 (cues' = cues /\ ~PressAdded /\ ~isPlaying' /\ ~rafPending')]_vars

\* C10: no run plays with an empty target list: empty input is rejected
\* before a run can start, also when no pattern was entered yet.
C10_NoRunWithoutTargets ==
    isPlaying => Len(events) > 0

\* C11: options with a non-positive toleranceMs are rejected when they are
\* configured, and the rejected call leaves the stored options unchanged.
C11_InvalidOptionsRejected ==
    [][\A v \in ToleranceInputs :
          (v # NaN /\ v <= 0 /\ SetTolerance(v)) => options' = options]_vars

\* C12: start() is called only while the run is not playing; it records the
\* origin time as performance.now(), clears the cue-fired set and the press
\* log, and puts the run in PreRoll (playing, elapsed < 0) if preRollSeconds
\* > 0, else in Running (playing, elapsed >= 0).
C12_Start ==
    [][Play =>
          /\ ~isPlaying
          /\ isPlaying'
          /\ startTime' = clock
          /\ played' = {}
          /\ presses' = <<>>
          /\ (now' < 0) = (options.preRollSeconds > 0)]_vars

\* C13: stop() leaves the run not playing with no frame requested, and keeps
\* elapsed, the cue-fired set and the press log; called when the run is
\* already stopped it changes nothing; and while the run is not playing no
\* cue plays and elapsed changes only by reset().
C13_StopHaltsCadence ==
    [][/\ Stop =>
            /\ ~isPlaying'
            /\ ~rafPending'
            /\ now' = now /\ played' = played /\ cues' = cues /\ presses' = presses
            /\ ~isPlaying =>
                  UNCHANGED <<isPlaying, now, played, presses, startTime,
                              rafPending, events, options>>
       /\ (~isPlaying /\ ~isPlaying') =>
            /\ ~rafPending'
            /\ cues' = cues
            /\ now' # now => Reset]_vars

\* a run that played a cue was stopped by the Stop button at elapsed > 0
C13_Witness ==
    /\ ~isPlaying
    /\ ~autoStopped
    /\ ~rafPending
    /\ now > 0
    /\ \E id \in Ids : cues[id] = 1

\* C14: reset() is enabled in every state; after it the run is not playing,
\* elapsed = 0, the cue-fired set and the press log are empty and no frame is
\* requested; and from a not playing state with elapsed = 0 elapsed stays 0
\* for as long as the run is not started.
C14_ResetToIdle ==
    [][/\ ENABLED Reset
       /\ Reset =>
            /\ ~isPlaying'
            /\ now' = 0
            /\ played' = {}
            /\ presses' = <<>>
            /\ ~rafPending'
       /\ (~isPlaying /\ now = 0 /\ ~isPlaying') => now' = 0]_vars

\* a run that played a cue was reset after time had passed since its start:
\* the cue is in the history, the cue-fired set is empty again and elapsed is 0
C14_Witness ==
    /\ ~isPlaying
    /\ now = 0
    /\ played = {}
    /\ presses = <<>>
    /\ ~rafPending
    /\ ~autoStopped
    /\ clock > startTime
    /\ \E id \in Ids : cues[id] = 1

\* ids of the targets with time <= t
Fired(t) == {events[i].id : i \in {j \in 1..Len(events) : events[j].time <= t}}
\* t is at least 2 s after every target
StopsAt(t) ==
    /\ t >= 2 * UnitsPerSecond
    /\ \A i \in 1..Len(events) : t >= events[i].time + 2 * UnitsPerSecond

\* C15: with targets and options fixed during a run, every run started from
\* Idle, the first one and one started after reset() alike, has the schedule
\* that the tick times relative to the start determine: the origin is the
\* time of the start, before the first tick no cue has fired and elapsed is 0,
\* a tick at relative time t sets elapsed to t - preRollSeconds, plays exactly
\* the cues that became due since the tick before, and auto-stops exactly
\* when elapsed >= last target + 2 s.
C15_RestartReproducesSchedule ==
    [][startedFrom = "Idle" =>
          /\ Play => (startTime' = clock /\ played' = {} /\ now' = 0)
          /\ (isPlaying /\ ~ticked) => (played = {} /\ now = 0)
          /\ (isPlaying /\ ticked) => (played = Fired(now) /\ ~StopsAt(now))
          /\ (Tick /\ isPlaying) =>
                /\ now' = (clock - startTime) - options.preRollSeconds
                /\ played' = Fired(now')
                /\ \A id \in Ids :
                      cues'[id] = cues[id]
                          + (IF id \in Fired(now') \ played THEN 1 ELSE 0)
                /\ isPlaying' = ~StopsAt(now')]_vars

\* a run started after a reset that followed an earlier run has ticked and
\* played a cue
C15_Witness ==
    /\ startedFrom = "Idle"
    /\ startTime > 0
    /\ isPlaying
    /\ ticked
    /\ \E id \in Ids : cues[id] = 1 /\ id \in played

\* C16: while a run is playing, elapsed (now) does not decrease from one tick
\* of the run to the next, also when the pre-roll option is edited in between.
C16_ElapsedMonotone ==
    [][(isPlaying /\ ticked /\ isPlaying' /\ ticked') => now' >= now]_vars

\* C17: in PreRoll elapsed (now) is < 0: with preRollSeconds > 0, in every
\* state in which the run is playing and no tick of it has run yet, now < 0.
C17_PreRollNegative ==
    (isPlaying /\ ~ticked /\ options.preRollSeconds > 0) => now < 0

\* C18: isPlaying changes only in a step of start (Play), stop, reset or of a
\* tick whose elapsed is >= last target + 2 s (auto-stop); a key press, an
\* option edit and a pattern load, valid or invalid, leave it unchanged.
C18_RunStateFrame ==
    [][/\ isPlaying' # isPlaying =>
             (Play \/ Stop \/ Reset \/ (Tick /\ StopsAt(now')))
       /\ (\/ \E code \in {"Space", "Enter"} : KeyPress(code)
           \/ \E v \in ToleranceInputs : SetTolerance(v)
           \/ \E v \in PreRollInputs : SetPreRoll(v)
           \/ \E ts \in TimeLists : LoadEvents(ts)
           \/ LoadInvalid) => isPlaying' = isPlaying]_vars

\* the run is still playing after a press was recorded in it and after the
\* pattern was replaced in it (a cue of the old pattern has no target now)
C18_Witness ==
    /\ isPlaying
    /\ Len(presses) > 0
    /\ \E id \in played : \A i \in 1..Len(events) : events[i].id # id

\* C19: a Space keydown handled while the listener's isPlaying is true appends
\* exactly one Press to the end of the press log and leaves the earlier ones
\* as they are, also when the listener was not re-rendered since the press
\* before; no accepted press is lost: the log holds as many Presses as
\* keydowns were accepted since it was emptied; and every step leaves the
\* log, empties it or appends one Press.
C19_PressAppended ==
    [][/\ (KeyPress("Space") /\ rendered.isPlaying) =>
             /\ Len(presses') = Len(presses) + 1
             /\ SubSeq(presses', 1, Len(presses)) = presses
       /\ Len(presses') = accepted'
       /\ \/ presses' = presses
          \/ presses' = <<>>
          \/ /\ Len(presses') = Len(presses) + 1
             /\ SubSeq(presses', 1, Len(presses)) = presses]_vars

\* two presses are in the log and the listener that recorded them was built
\* by a render with an empty log
C19_Witness ==
    /\ Len(presses) = 2
    /\ rendered.presses = <<>>
    /\ rendered.isPlaying

\* C20: the target list of a run is fixed: while a run with targets stays
\* playing, the list of targets read by tick and by the press matcher does
\* not change.
C20_TargetsFixedInRun ==
    [][(isPlaying /\ isPlaying' /\ Len(events) > 0) => events' = events]_vars

\* ---- properties of the timing text ----------------------------------------
\* positions of the characters of the line l that are not white space
Inked(l) == {k \in 1..Len(l) : l[k] # Space}
FirstInked(l) == CHOOSE k \in Inked(l) : \A j \in Inked(l) : k <= j
LastInked(l) == CHOOSE k \in Inked(l) : \A j \in Inked(l) : j <= k
\* the line is neither empty nor a comment
Kept(l) == Inked(l) # {} /\ l[FirstInked(l)] # "#"
\* the line, white space around it apart, is a number >= 0 written in digits
NumberLine(l) ==
    /\ Inked(l) # {}
    /\ \A k \in FirstInked(l)..LastInked(l) : l[k] \in DigitChars
\* the number written from position k to the last digit of l
RECURSIVE Numeral(_, _)
Numeral(l, k) ==
    IF k < FirstInked(l) THEN 0
    ELSE DigitValue(l[k]) + 10 * Numeral(l, k - 1)
LineValue(l) == Numeral(l, LastInked(l))
KeptLines(t) == {i \in 1..Len(t) : Kept(t[i])}

\* C21: for a text with at least one remaining line whose remaining lines
\* (not empty, not starting with #) are all numbers >= 0, parseFile returns
\* those numbers, each as often as it is written, in ascending order.
C21_ParseFileSorted ==
    [][(/\ KeptLines(text) # {}
        /\ \A i \in KeptLines(text) : NumberLine(text[i])) =>
          /\ ~inputError'
          /\ Len(events') = Cardinality(KeptLines(text))
          /\ \A k \in 1..Len(events') :
                Cardinality({j \in 1..Len(events') : events'[j].time = events'[k].time})
                  = Cardinality({i \in KeptLines(text) :
                                    LineValue(text[i]) = events'[k].time})
          /\ \A j \in 1..Len(events') : \A k \in 1..Len(events') :
                j < k => events'[j].time <= events'[k].time]_vars

\* a text of a comment and two numbers in descending order was parsed to the
\* two numbers in ascending order
C21_Witness ==
    /\ Len(text) = 3
    /\ \E i \in 1..3 : Inked(text[i]) # {} /\ ~Kept(text[i])
    /\ \E i \in 1..3 : \E j \in 1..3 :
          /\ i < j /\ NumberLine(text[i]) /\ NumberLine(text[j])
          /\ LineValue(text[i]) > LineValue(text[j])
          /\ ~inputError
          /\ Len(events) = 2
          /\ events[1].time = LineValue(text[j])
          /\ events[2].time = LineValue(text[i])

\* C22: parseFile throws, and no target is loaded, when the text is empty or
\* white space only, when no line remains after empty lines and comments are
\* skipped, or when a remaining line is not a number >= 0.
C22_ParseFileThrows ==
    [][(\/ KeptLines(text) = {}
        \/ \E i \in KeptLines(text) : ~NumberLine(text[i])) =>
          (inputError' /\ events' = <<>>)]_vars

\* C28: the event list loaded from a timing text has the ids 0..n-1, each
\* once, in the order of the list, and is sorted ascending by time, so that
\* ids increase with the times.
C28_EventListOrdered ==
    [][/\ \A k \in 1..Len(events') : events'[k].id = k - 1
       /\ \A j \in 1..Len(events') : \A k \in 1..Len(events') :
             j < k => (/\ events'[j].time <= events'[k].time
                       /\ events'[j].id < events'[k].id)]_vars

\* a text with the same time twice and a smaller time after it was loaded
C28_Witness ==
    /\ Len(events) = 3
    /\ ~inputError
    /\ events[1].time < events[2].time
    /\ events[2].time = events[3].time
    /\ \E i \in 1..Len(text) : \E j \in 1..Len(text) :
          /\ i < j /\ NumberLine(text[i]) /\ NumberLine(text[j])
          /\ LineValue(text[i]) > LineValue(text[j])

\* C27: while an input error is present the event list handed to the
\* simulator is empty, and while an input error is present and playback is
\* not running the Play control cannot start a run.
C27_InputErrorBlocksPlay ==
    inputError => (/\ events = <<>>
                   /\ ~isPlaying => ~ENABLED Play)

\* the timing text became invalid in a run with a recorded press, the run
\* was stopped, and the error is still present
C27_Witness ==
    /\ inputError
    /\ ~isPlaying
    /\ ~rendered.isPlaying
    /\ Len(presses) > 0

\* ---- components/Feedback.tsx ---------------------------------------------
\* presses.find(p => p.eventId === id): the index of the first press of the
\* log that reports the event, 0 when there is none
FeedbackPress(prs, id) ==
    LET ks == {k \in 1..Len(prs) : prs[k].eventId = id}
    IN  IF ks = {} THEN 0 ELSE CHOOSE k \in ks : \A j \in ks : k <= j

\* the per-event row of the results list and of the CSV export
FeedbackRow(prs, ev) ==
    LET k == FeedbackPress(prs, ev.id)
    IN  IF k = 0
        THEN [pressed |-> FALSE, delta |-> 0, matched |-> FALSE]
        ELSE [pressed |-> TRUE, delta |-> prs[k].delta, matched |-> prs[k].matched]

\* C26: for each event that some press of the rendered log matched, the row
\* Feedback shows for the event is a hit with the delta of a press that
\* matched it, also when an earlier missed press reported the same event.
C26_FeedbackShowsBestPress ==
    \A i \in 1..Len(events) :
        LET hits == {k \in 1..Len(rendered.presses) :
                        /\ rendered.presses[k].matched
                        /\ rendered.presses[k].eventId = events[i].id}
            row == FeedbackRow(rendered.presses, events[i])
        IN  hits # {} =>
                /\ row.pressed
                /\ row.matched
                /\ \E k \in hits : row.delta = rendered.presses[k].delta

\* C24: in a run whose targets are fixed, a tick of the playing loop fires
\* every target that is due and not yet fired, whatever their number and
\* order: after the tick every target with time <= elapsed is in the fired
\* set and has played its cue, and each one that was not fired before the
\* tick played its cue in this tick.
C24_AllDueFire ==
    [][(Tick /\ rendered.isPlaying) =>
          \A i \in 1..Len(events) :
              events[i].time <= now' =>
                  /\ events[i].id \in played'
                  /\ cues'[events[i].id] >= 1
                  /\ events[i].id \notin played =>
                        cues'[events[i].id] = cues[events[i].id] + 1]_vars

\* two targets with the same time were fired by a tick of the run, each with
\* one cue
C24_Witness ==
    /\ isPlaying
    /\ ticked
    /\ Len(events) = 2
    /\ events[1].time = events[2].time
    /\ events[1].id # events[2].id
    /\ played = {events[1].id, events[2].id}
    /\ cues[events[1].id] = 1
    /\ cues[events[2].id] = 1

\* the auto-stop time of the current run is within the time followed
RunFits ==
    LET lastEventTime == IF Len(events) > 0 THEN MaxEventTime(events) ELSE 0
    IN  startTime + options.preRollSeconds + lastEventTime + 2 * UnitsPerSecond
            <= MaxClock

\* C25: under fair ticking with advancing time every started run ends, and a
\* run ends only by the user's Stop or Reset or by auto-stop, which happens
\* at the first tick 2 s or more after the last target.
C25_RunAutoStops ==
    /\ (isPlaying /\ RunFits) ~> ~isPlaying
    /\ [][(isPlaying /\ ~isPlaying') =>
             \/ Stop
             \/ Reset
             \/ /\ autoStopped'
                /\ Tick
                /\ now' >= (IF Len(events) > 0 THEN MaxEventTime(events) ELSE 0)
                              + 2 * UnitsPerSecond]_vars

\* a run with a target was ended by auto-stop, after its last cue
C25_Witness ==
    /\ autoStopped
    /\ ~isPlaying
    /\ Len(events) > 0
    /\ \A i \in 1..Len(events) : cues[events[i].id] = 1
    /\ now >= MaxEventTime(events) + 2 * UnitsPerSecond

\* C34: in a run whose targets are fixed, the tick that ends the run by
\* auto-stop leaves every target with exactly one cue played in the run and
\* in the fired set, the targets that became due in that same tick included.
C34_AutoStopAfterAllCues ==
    [][(Tick /\ ~autoStopped /\ autoStopped') =>
          \A i \in 1..Len(events) :
              /\ cues'[events[i].id] = 1
              /\ events[i].id \in played']_vars

\* a run with two targets at different times was ended by auto-stop, each
\* target with one cue, and the stop is not rendered yet
C34_Witness ==
    /\ autoStopped
    /\ ~isPlaying
    /\ rendered.isPlaying
    /\ Len(events) = 2
    /\ events[1].time < events[2].time
    /\ played = {events[1].id, events[2].id}
    /\ cues[events[1].id] = 1
    /\ cues[events[2].id] = 1

\* C35: the time of a recorded Press is the elapsed value set by the most
\* recent tick before the key event (the value of now), so that presses
\* between the same two ticks record the same time.
C35_PressTimeOfLastTick ==
    [][\A code \in {"Space", "Enter"} :
          (KeyPress(code) /\ Len(presses') = Len(presses) + 1) =>
              presses'[Len(presses')].time = now]_vars

\* ---- properties of the pattern library ------------------------------------
\* a finite number >= 0
FiniteNonNegative(v) == v \notin {NaN, PosInfinity, JsonNull} /\ v >= 0

\* non-empty, every value a finite number >= 0, strictly ascending
ValidTimings(ts) ==
    /\ Len(ts) > 0
    /\ \A i \in 1..Len(ts) : FiniteNonNegative(ts[i])
    /\ \A i \in 1..Len(ts) : \A j \in 1..Len(ts) : i < j => ts[i] < ts[j]

\* the storage item holds custom patterns that pass structure validation
CustomPresent ==
    /\ storage.kind = "patterns"
    /\ \A ph \in Phases : \A k \in 1..Len(storage.value[ph]) :
          /\ storage.value[ph][k].id # ""
          /\ storage.value[ph][k].name # ""
          /\ storage.value[ph][k].videoPath # ""
          /\ ValidTimings(storage.value[ph][k].timings)

\* the patterns the program works with
PatternsInEffect == IF CustomPresent THEN storage.value ELSE DefaultPatterns

\* C23: loadSimonPatterns returns the custom patterns of the storage item
\* when they are present and pass structure validation and the default
\* patterns otherwise, does not throw and does not modify the storage item.
C23_LoadSimonPatterns ==
    [][CallLoadSimonPatterns =>
          /\ returned' = IF CustomPresent THEN storage.value ELSE DefaultPatterns
          /\ ~threw'
          /\ storage' = storage]_vars

\* the defaults were returned for stored patterns that fail validation, and
\* the item is still stored
C23_Witness ==
    /\ lastCall = "load"
    /\ storage.kind = "patterns"
    /\ ~CustomPresent
    /\ returned = DefaultPatterns
    /\ ~threw

\* C29: updatePattern throws and leaves the storage item unchanged when the
\* pattern id does not exist in the given phase of the patterns in effect or
\* the new timings are not valid (non-empty, every value a finite number
\* >= 0, strictly ascending).
C29_UpdatePatternRejects ==
    [][\A phase \in Phases : \A patternId \in PatternIds : \A newTimings \in NewTimings :
          (/\ UpdatePattern(phase, patternId, newTimings)
           /\ \/ \A k \in 1..Len(PatternsInEffect[phase]) :
                    PatternsInEffect[phase][k].id # patternId
              \/ ~ValidTimings(newTimings))
          => (threw' /\ storage' = storage)]_vars

\* an update was rejected and the custom patterns are still stored
C29_Witness ==
    /\ lastCall = "update"
    /\ threw
    /\ CustomPresent
    /\ Len(storage.value.phase1) = 2

\* C30: a successful updatePattern(phase, id, timings) changes only the
\* timings of the named pattern: every other pattern of both phases and the
\* id, name and videoPath of the named pattern are as before, and
\* loadSimonPatterns on the storage item it leaves returns exactly the
\* updated set.
C30_UpdatePatternFrame ==
    [][\A phase \in Phases : \A patternId \in PatternIds : \A newTimings \in NewTimings :
          (UpdatePattern(phase, patternId, newTimings) /\ ~threw') =>
              LET old == PatternsInEffect
                  named == CHOOSE k \in 1..Len(old[phase]) :
                               /\ old[phase][k].id = patternId
                               /\ \A j \in 1..(k - 1) : old[phase][j].id # patternId
              IN  /\ \A ph \in Phases :
                        /\ Len(returned'[ph]) = Len(old[ph])
                        /\ \A k \in 1..Len(old[ph]) :
                              IF ph = phase /\ k = named
                              THEN /\ returned'[ph][k].timings = newTimings
                                   /\ returned'[ph][k].id = old[ph][k].id
                                   /\ returned'[ph][k].name = old[ph][k].name
                                   /\ returned'[ph][k].videoPath = old[ph][k].videoPath
                              ELSE returned'[ph][k] = old[ph][k]
                  /\ LoadSimonPatterns(storage') = returned']_vars

\* the first pattern of phase1 of a custom set of two got new timings, and
\* the set is stored
C30_Witness ==
    /\ lastCall = "update"
    /\ ~threw
    /\ storage.kind = "patterns"
    /\ storage.value = returned
    /\ Len(returned.phase1) = 2
    /\ returned.phase1[1].timings = <<0, 1>>
    /\ returned.phase1[2].id = "b"
    /\ returned.phase1[2].timings = <<0, 2>>

\* every pattern of the set p has an id, a name, a videoPath and valid timings
WellFormedSet(p) ==
    \A ph \in Phases : \A k \in 1..Len(p[ph]) :
        /\ p[ph][k].id # ""
        /\ p[ph][k].name # ""
        /\ p[ph][k].videoPath # ""
        /\ ValidTimings(p[ph][k].timings)

\* C31: after resetPatternsToDefault the patterns loadSimonPatterns returns
\* are the defaults, after a saveSimonPatterns(p) with valid p that did not
\* throw they are p, and a call of loadSimonPatterns returns them and leaves
\* them as they are, so that they stay until the next save or reset.
C31_ResetAndSave ==
    [][/\ ResetPatternsToDefault => PatternsInEffect' = DefaultPatterns
       /\ \A p \in SavedPatternSets :
             (SaveSimonPatterns(p) /\ ~threw' /\ WellFormedSet(p)) =>
                 PatternsInEffect' = p
       /\ CallLoadSimonPatterns =>
             (returned' = PatternsInEffect /\ PatternsInEffect' = PatternsInEffect)]_vars

\* a valid set that only saveSimonPatterns stores was saved and then loaded
C31_Witness ==
    /\ lastCall = "load"
    /\ ~threw
    /\ returned = [DefaultPatterns EXCEPT !.phase1[2].timings = <<1, 2>>]
    /\ WellFormedSet(returned)
    /\ storage = Item("patterns", returned)

\* ---- properties of the timing adjustment interface ------------------------
\* C32: after updateIndividualTiming(index, value), for every row index and
\* every value, every adjusted timing is >= 0 and each is strictly greater
\* than the one before it.
C32_IndividualEditAscending ==
    [][\A index \in 1..3 : \A value \in TimingInputs :
          UpdateIndividualTiming(index, value) =>
              LET ts == adjustment'.adjustedTimings
              IN  /\ Len(ts) = Len(adjustment.adjustedTimings)
                  /\ \A i \in 1..Len(ts) : ts[i] >= 0
                  /\ \A i \in 1..(Len(ts) - 1) : ts[i] < ts[i + 1]]_vars

\* an individual edit of a list with equal neighbours pushed two later
\* timings up
C32_Witness ==
    /\ Len(adjustment.adjustedTimings) = 3
    /\ adjustment.adjustedTimings[1] = 2
    /\ adjustment.adjustedTimings[2] = 3
    /\ adjustment.adjustedTimings[3] = 4
    /\ adjustment.baseTimings = <<1, 2, 2>>
    /\ adjustment.globalOffset = 0

\* C33: every timing list passed to onSave has the length of the pattern
\* and passes updatePattern's validation: non-empty, every value a finite
\* number >= 0, strictly ascending.
C33_SavedTimingsValid ==
    adjustment.saveCalled =>
        /\ Len(adjustment.savedTimings) = Len(adjustment.pattern)
        /\ ValidTimings(adjustment.savedTimings)

\* ---- properties of the calibration ----------------------------------------
\* C36: during calibration the number of captured timings never exceeds
\* pattern.timings.length, recording is off as soon as that many presses are
\* captured, and the captured timings are non-decreasing, also for key events
\* that arrive before the key listener is detached.
C36_CalibrationCaptures ==
    LET ts == calibration.capturedTimings
    IN  /\ Len(ts) <= calibration.length
        /\ Len(ts) >= calibration.length => ~calibration.isRecording
        /\ \A i \in 1..(Len(ts) - 1) : ts[i] <= ts[i + 1]

\* ---- properties of the pattern editor --------------------------------------
\* C37: whenever editMode is calibrate, quickEdit or adjust, a pattern is
\* selected.
C37_EditModeHasPattern ==
    editor.editMode \in {"calibrate", "quickEdit", "adjust"} =>
        editor.selectedPattern # NoPattern

\* the patterns were refreshed during an adjustment, after an update was
\* saved, and the pattern is still selected
C37_Witness ==
    /\ editor.editMode = "adjust"
    /\ lastCall = "load"
    /\ storage.kind = "patterns"
    /\ editor.patterns = storage.value
    /\ editor.patterns # DefaultPatterns
    /\ editor.selectedPattern # NoPattern
    /\ editor.selectedPattern.id = "a"

\* C38: when updatePattern throws in a save from quick edit or from the
\* adjustment, the editor records the error and leaves editMode, the pattern
\* set, the selected pattern and the captured timings as they are; a save
\* that does not throw returns editMode to view.
C38_FailedSaveKeepsEditor ==
    [][\A newTimings \in SaveInputs :
          (QuickEditSave(newTimings) \/ AdjustSave(newTimings)) =>
              IF threw'
              THEN /\ editor'.error # ""
                   /\ editor'.editMode = editor.editMode
                   /\ editor'.patterns = editor.patterns
                   /\ editor'.selectedPattern = editor.selectedPattern
                   /\ editor'.capturedTimings = editor.capturedTimings
              ELSE editor'.editMode = "view"]_vars

\* a save from the adjustment failed: the error is recorded and the
\* adjustment is still open with the captured timings
C38_Witness ==
    /\ editor.editMode = "adjust"
    /\ lastCall = "update"
    /\ threw
    /\ editor.error = "invalid timings"
    /\ editor.capturedTimings # <<>>
    /\ editor.selectedPattern # NoPattern

=============================================================================
